---- MODULE Spec2Model ----
(***************************************************************************)
(* Social coordination core of the backend: PartyService, FriendsService   *)
(* and PresenceService (src/Beta/backend).  Every public method is a       *)
(* function of the state it reads (the state it leaves, what it returns,   *)
(* what it emits) and one atomic action that applies it; the REST adapters *)
(* of server.py only forward arguments.  Time is datetime.utcnow() in      *)
(* seconds; identifiers made by secrets.token_hex are drawn from counters, *)
(* so an id is never reused.                                               *)
(***************************************************************************)
EXTENDS Integers, Sequences, FiniteSets, Bags, TLC

(* ---------------- bounds of the model ---------------- *)
MaxAccounts == 3
MaxParties == 2
MaxInvitations == 1
MaxPartyTime == 301
MaxMemberTime == 2
MaxRequests == 2
MaxBlocks == 1
MaxFriendsTime == 2592001
MaxClients == 2
MaxSubscriptions == 2
MaxThreads == 2
MaxPresenceTime == 1801

Accounts == 1..MaxAccounts
\* the threads that serve requests at the same time
Threads == 1..MaxThreads
\* a thread that is between two requests
Idle == [op |-> "idle"]

(* ---------------- program constants ---------------- *)
max_party_size == 4
invitation_timeout == 300
\* timedelta(days=30), in seconds
friend_request_timeout == 2592000

\* values a caller may put in party_config['max_size'] (never validated)
ConfigSizes == {2, max_party_size}
\* max_size values a caller may send when any number is allowed
AnySizes == {0, 1, 2}
\* values a caller may send as status, activity and properties of a presence
StatusInputs == {"online", "busy"}
ActivityInputs == {"match"}
PropertyInputs == {[custom |-> "x"]}
\* values a caller may send as the response to an invitation or a request
Responses == {"ACCEPT", "DECLINE", "accept"}
\* a response that is neither ACCEPT nor DECLINE in any case of letters
OtherResponses == {"maybe"}
\* the accounts that make parties and send invitations and friend requests
\* where what follows a sent request is studied; the accounts are
\* interchangeable
Requesters == {1}

VARIABLES
  now,                 \* datetime.utcnow()
  active_parties,      \* PartyService.active_parties : party_id -> party
  party_invitations,   \* PartyService.party_invitations : account -> list
  user_parties,        \* PartyService.user_parties : account -> party_id
  db_parties,          \* table "parties" of GameDatabase
  next_party_id,       \* next secrets.token_hex(16) of create_party
  next_invitation_id,  \* next secrets.token_hex(8) of send_invitation
  friend_lists,        \* FriendsService.friend_lists : account -> set
  blocked_users,       \* FriendsService.blocked_users : account -> set
  friend_requests,     \* FriendsService.friend_requests : account -> list
  pending_requests,    \* FriendsService.pending_requests : id -> request
  next_request_id,     \* next secrets.token_hex(16) of send_friend_request
  user_presence,           \* PresenceService.user_presence
  presence_subscriptions,  \* PresenceService: target -> set of subscribers
  user_subscriptions,      \* PresenceService: subscriber -> set of targets
  connected_clients,   \* WebSocketHandler.connected_clients, oldest first
  emitted,             \* bag of the socketio.emit calls of the last call
  in_flight,           \* request thread -> the call it is in the middle of
  reply                \* the last call: its name and what it returned

vars == <<now, active_parties, party_invitations, user_parties, db_parties,
          next_party_id, next_invitation_id, friend_lists, blocked_users,
          friend_requests, pending_requests, next_request_id, user_presence,
          presence_subscriptions, user_subscriptions, connected_clients,
          emitted, in_flight, reply>>

party_vars == <<active_parties, party_invitations, user_parties, db_parties,
                next_party_id, next_invitation_id>>
friends_vars == <<friend_lists, blocked_users, friend_requests,
                  pending_requests, next_request_id>>
subscription_vars == <<presence_subscriptions, user_subscriptions>>
presence_vars == <<user_presence, subscription_vars>>

(* ---------------- dictionaries ---------------- *)
EmptyMap == [x \in {} |-> x]
Put(f, k, v) == [x \in (DOMAIN f) \cup {k} |-> IF x = k THEN v ELSE f[x]]
Del(f, k) == [x \in (DOMAIN f) \ {k} |-> f[x]]
RemoveAt(s, i) == [j \in 1..(Len(s) - 1) |-> IF j < i THEN s[j] ELSE s[j + 1]]

\* str.upper() on the response values
Upper(s) ==
  IF s = "accept" THEN "ACCEPT" ELSE IF s = "maybe" THEN "MAYBE" ELSE s

(* ---------------- what a call returns ---------------- *)
PartyRoomEvent(event, party_id) ==
  [event |-> event, room |-> "party", id |-> party_id]
ClientEvent(event, client_id) ==
  [event |-> event, room |-> "client", id |-> client_id]
OneEvent(e) == SetToBag({e})

\* error texts of party_service.py, under the names the design gives them
PartyNotFound == "Party not found"
AlreadyMember == "User already in party"
PartyFull == "Party is full"
AlreadyInAnotherParty == "User already in another party"
NotMember == "User not in party"
MemberNotFound == "Member not found in party"
SenderNotMember == "Sender not in party"
TargetAlreadyInParty == "Target user already in a party"
InvitationNotFound == "Invitation not found"
InvitationExpired == "Invitation expired"

(* ---------------- GameDatabase, table parties ---------------- *)
\* json.dumps / json.loads keep every value of a party (strings, numbers,
\* booleans, lists); what the round trip loses is object identity, and
\* parties are values here.
save_party(db, party_id, party_data) == Put(db, party_id, party_data)
delete_party_skipped(db, party_id) == db
delete_party(db, party_id) == Del(db, party_id)

(* ---------------- PartyService helpers ---------------- *)
\* the state of PartyService and of the parties table after a call, what the
\* call returned and what it emitted
PartyResult(result, ap, pinv, up, db, em) ==
  [result |-> result, ap |-> ap, pinv |-> pinv, up |-> up, db |-> db,
   em |-> em]
PartyFailure(result) ==
  PartyResult(result, active_parties, party_invitations, user_parties,
              db_parties, EmptyBag)

MemberIndex(party, account_id) ==
  {i \in 1..Len(party.members) : party.members[i].account_id = account_id}
has_member(party, account_id) == MemberIndex(party, account_id) # {}

party_full_off_by_one(party) == Len(party.members) > party.config.max_size
party_full(party) == Len(party.members) >= party.config.max_size

in_another_party_unchecked(ap, up, party_id, account_id) == FALSE
in_another_party(ap, up, party_id, account_id) ==
  /\ account_id \in DOMAIN up
  /\ up[account_id] # party_id
  /\ up[account_id] \in DOMAIN ap

is_expired_late(expires_at, current_time) == current_time > expires_at + 1
is_expired(expires_at, current_time) == current_time > expires_at

promote_captain_none(members) == members
promote_captain_last(members) ==
  [members EXCEPT ![Len(members)].role = "CAPTAIN"]
promote_captain(members) == [members EXCEPT ![1].role = "CAPTAIN"]

new_member(account_id, role) ==
  [account_id |-> account_id, role |-> role, joined_at |-> now,
   ready |-> FALSE]

\* the loop over websocket_handler.connected_clients that emits to the first
\* client of the account and stops
ClientsOf(account_id) ==
  {i \in 1..Len(connected_clients) :
     connected_clients[i].account_id = account_id}
FirstClient(account_id) ==
  connected_clients[CHOOSE i \in ClientsOf(account_id) :
                      \A j \in ClientsOf(account_id) : i <= j].client_id
NotifyClient(event, account_id) ==
  IF ClientsOf(account_id) = {} THEN EmptyBag
  ELSE OneEvent(ClientEvent(event, FirstClient(account_id)))

(* ---------------- PartyService operations ---------------- *)
create_party(account_id, max_size) ==
  IF /\ account_id \in DOMAIN user_parties
     /\ user_parties[account_id] \in DOMAIN active_parties
  THEN PartyFailure(AlreadyMember)
  ELSE
    LET party_id == next_party_id
        party_data == [id |-> party_id, created_at |-> now,
                       updated_at |-> now,
                       config |-> [max_size |-> max_size],
                       members |-> <<new_member(account_id, "CAPTAIN")>>,
                       invitations |-> <<>>]
    IN PartyResult("OK", Put(active_parties, party_id, party_data),
                   party_invitations,
                   Put(user_parties, account_id, party_id),
                   save_party(db_parties, party_id, party_data), EmptyBag)

get_party(party_id) ==
  IF party_id \in DOMAIN active_parties THEN PartyFailure("OK")
  ELSE IF party_id \in DOMAIN db_parties
  THEN PartyResult("OK", Put(active_parties, party_id, db_parties[party_id]),
                   party_invitations, user_parties, db_parties, EmptyBag)
  ELSE PartyFailure(PartyNotFound)

\* join_party reads the three maps it is given: respond_to_invitation calls
\* it in the middle of its body
join_party(ap, up, db, party_id, account_id) ==
  IF party_id \notin DOMAIN ap /\ party_id \notin DOMAIN db
  THEN PartyResult(PartyNotFound, ap, party_invitations, up, db, EmptyBag)
  ELSE
    LET ap1 == IF party_id \in DOMAIN ap THEN ap
               ELSE Put(ap, party_id, db[party_id])
        party == ap1[party_id]
        fail(r) == PartyResult(r, ap1, party_invitations, up, db, EmptyBag)
    IN IF has_member(party, account_id) THEN fail(AlreadyMember)
       ELSE IF party_full(party) THEN fail(PartyFull)
       ELSE IF in_another_party(ap1, up, party_id, account_id)
            THEN fail(AlreadyInAnotherParty)
       ELSE
         LET party2 == [party EXCEPT
                          !.members = Append(@, new_member(account_id,
                                                           "MEMBER")),
                          !.updated_at = now]
         IN PartyResult("JOINED", Put(ap1, party_id, party2),
                        party_invitations, Put(up, account_id, party_id),
                        save_party(db, party_id, party2),
                        OneEvent(PartyRoomEvent("party_member_joined",
                                                party_id)))

leave_party(party_id, account_id) ==
  IF party_id \notin DOMAIN active_parties THEN PartyFailure(PartyNotFound)
  ELSE
    LET party == active_parties[party_id]
        found == MemberIndex(party, account_id)
    IN IF found = {} THEN PartyFailure(NotMember)
       ELSE
         LET i == CHOOSE k \in found : \A m \in found : k <= m
             member_to_remove == party.members[i]
             rest == RemoveAt(party.members, i)
             members2 == IF member_to_remove.role = "CAPTAIN" /\ rest # <<>>
                         THEN promote_captain(rest) ELSE rest
             party2 == [party EXCEPT !.members = members2,
                                     !.updated_at = now]
             up2 == IF account_id \in DOMAIN user_parties
                    THEN Del(user_parties, account_id) ELSE user_parties
             em == OneEvent(PartyRoomEvent("party_member_left", party_id))
         IN IF rest = <<>>
            THEN PartyResult("LEFT", Del(active_parties, party_id),
                             party_invitations, up2,
                             delete_party(db_parties, party_id), em)
            ELSE PartyResult("LEFT", Put(active_parties, party_id, party2),
                             party_invitations, up2,
                             save_party(db_parties, party_id, party2), em)

\* every member of the party is marked
update_member_ready_state_all(ap, db, time, party_id, account_id, ready) ==
  LET fail(e) == PartyResult(e, ap, party_invitations, user_parties, db,
                             EmptyBag)
  IN IF party_id \notin DOMAIN ap THEN fail(PartyNotFound)
     ELSE
       LET party == ap[party_id]
           found == MemberIndex(party, account_id)
       IN IF found = {} THEN fail(MemberNotFound)
          ELSE
            LET party2 ==
                  [party EXCEPT
                     !.members = [k \in 1..Len(party.members) |->
                                    [party.members[k] EXCEPT
                                       !.ready = ready]],
                     !.updated_at = time]
            IN PartyResult("UPDATED", Put(ap, party_id, party2),
                 party_invitations, user_parties,
                 save_party(db, party_id, party2),
                 OneEvent(PartyRoomEvent("party_member_ready_changed",
                                         party_id)))
\* update_member_ready_state on the parties and the table it is given at the
\* time it is given, so that a later call can be applied to what an earlier
\* one left
update_member_ready_state(ap, db, time, party_id, account_id, ready) ==
  LET fail(e) == PartyResult(e, ap, party_invitations, user_parties, db,
                             EmptyBag)
  IN IF party_id \notin DOMAIN ap THEN fail(PartyNotFound)
     ELSE
       LET party == ap[party_id]
           found == MemberIndex(party, account_id)
       IN IF found = {} THEN fail(MemberNotFound)
          ELSE
            LET i == CHOOSE k \in found : \A m \in found : k <= m
                party2 == [party EXCEPT !.members[i].ready = ready,
                                        !.updated_at = time]
            IN PartyResult("UPDATED", Put(ap, party_id, party2),
                 party_invitations, user_parties,
                 save_party(db, party_id, party2),
                 OneEvent(PartyRoomEvent("party_member_ready_changed",
                                         party_id)))

send_invitation(party_id, from_account_id, to_account_id) ==
  IF party_id \notin DOMAIN active_parties THEN PartyFailure(PartyNotFound)
  ELSE IF ~has_member(active_parties[party_id], from_account_id)
       THEN PartyFailure(SenderNotMember)
  ELSE IF to_account_id \in DOMAIN user_parties
       THEN PartyFailure(TargetAlreadyInParty)
  ELSE
    LET invitation ==
          [id |-> next_invitation_id, party_id |-> party_id,
           from_account_id |-> from_account_id,
           to_account_id |-> to_account_id,
           expires_at |-> now + invitation_timeout,
           status |-> "PENDING"]
        party2 == [active_parties[party_id] EXCEPT
                     !.invitations = Append(@, invitation)]
        mine == IF to_account_id \in DOMAIN party_invitations
                THEN party_invitations[to_account_id] ELSE <<>>
    IN PartyResult("SENT", Put(active_parties, party_id, party2),
                   Put(party_invitations, to_account_id,
                       Append(mine, invitation)),
                   user_parties, save_party(db_parties, party_id, party2),
                   NotifyClient("party_invitation", to_account_id))

\* the search loop without its test of the recipient
FindInvitation_any_account(invitation_id, account_id) ==
  {pi \in UNION {{<<p, i>> : i \in 1..Len(active_parties[p].invitations)} :
                 p \in DOMAIN active_parties} :
     active_parties[pi[1]].invitations[pi[2]].id = invitation_id}
\* the (party, position) pairs that the search loop of
\* respond_to_invitation accepts
FindInvitation(invitation_id, account_id) ==
  {pi \in UNION {{<<p, i>> : i \in 1..Len(active_parties[p].invitations)} :
                 p \in DOMAIN active_parties} :
     LET inv == active_parties[pi[1]].invitations[pi[2]]
     IN inv.id = invitation_id /\ inv.to_account_id = account_id}

SetStatus(invs, invitation_id, status) ==
  [j \in 1..Len(invs) |->
     IF invs[j].id = invitation_id THEN [invs[j] EXCEPT !.status = status]
     ELSE invs[j]]

respond_to_invitation(invitation_id, account_id, response) ==
  LET found == FindInvitation(invitation_id, account_id) IN
  IF found = {} THEN PartyFailure(InvitationNotFound)
  ELSE
    LET pi == CHOOSE x \in found : TRUE
        party_id == pi[1]
        invitation == active_parties[party_id].invitations[pi[2]]
    IN
    IF is_expired(invitation.expires_at, now)
    THEN PartyFailure(InvitationExpired)
    ELSE
      LET \* the invitation is one object, held by the party's list and by
          \* the recipient's list: both see the new status
          ap1 == Put(active_parties, party_id,
                     [active_parties[party_id] EXCEPT
                        !.invitations = SetStatus(@, invitation_id,
                                                  Upper(response))])
          pinv1 == [a \in DOMAIN party_invitations |->
                      SetStatus(party_invitations[a], invitation_id,
                                Upper(response))]
          \* join_party fails by returning a tuple (body, code); the test
          \* 'error' in join_result looks for the string among the tuple's
          \* two elements and never finds it, so a failed join goes on
          j == IF Upper(response) = "ACCEPT"
               THEN join_party(ap1, user_parties, db_parties, party_id,
                               account_id)
               ELSE PartyResult("", ap1, party_invitations, user_parties,
                                db_parties, EmptyBag)
          pinv2 == IF account_id \in DOMAIN pinv1
                   THEN [pinv1 EXCEPT ![account_id] =
                           SelectSeq(@, LAMBDA inv : inv.id # invitation_id)]
                   ELSE pinv1
      IN PartyResult("OK", j.ap, pinv2, j.up,
                     save_party(j.db, party_id, j.ap[party_id]), j.em)

\* the invitations of the account that are PENDING and not expired: they are
\* returned and replace the list of the account
get_user_invitations(account_id) ==
  IF account_id \notin DOMAIN party_invitations
  THEN PartyResult(<<>>, active_parties, party_invitations, user_parties,
                   db_parties, EmptyBag)
  ELSE
    LET valid_invitations ==
          SelectSeq(party_invitations[account_id],
                    LAMBDA inv : /\ ~is_expired(inv.expires_at, now)
                                 /\ inv.status = "PENDING")
    IN PartyResult(valid_invitations, active_parties,
                   Put(party_invitations, account_id, valid_invitations),
                   user_parties, db_parties, EmptyBag)

Unexpired(invs) ==
  SelectSeq(invs, LAMBDA inv : ~is_expired(inv.expires_at, now))

\* the lists of the parties are left as they are
cleanup_expired_invitations_index_only ==
  PartyResult("OK", active_parties,
              [a \in {b \in DOMAIN party_invitations :
                        Unexpired(party_invitations[b]) # <<>>} |->
                 Unexpired(party_invitations[a])],
              user_parties, db_parties, EmptyBag)
cleanup_expired_invitations ==
  PartyResult("OK",
              [p \in DOMAIN active_parties |->
                 [active_parties[p] EXCEPT !.invitations = Unexpired(@)]],
              [a \in {b \in DOMAIN party_invitations :
                        Unexpired(party_invitations[b]) # <<>>} |->
                 Unexpired(party_invitations[a])],
              user_parties, db_parties, EmptyBag)

(* ---------------- the calls as steps ---------------- *)
PartyEffect(op, r) ==
  /\ UNCHANGED <<friends_vars, presence_vars, connected_clients>>
  /\ active_parties' = r.ap
  /\ party_invitations' = r.pinv
  /\ user_parties' = r.up
  /\ db_parties' = r.db
  /\ emitted' = r.em
  /\ reply' = [op |-> op, result |-> r.result]

\* a call that runs from its first line to its return with no other thread
\* in between
PartyCall(op, r) == PartyEffect(op, r) /\ UNCHANGED in_flight

CreateParty(account_id, max_size) ==
  LET r == create_party(account_id, max_size) IN
  /\ r.result = "OK" => next_party_id <= MaxParties
  /\ PartyCall("create_party", r)
  /\ next_party_id' = IF r.result = "OK" THEN next_party_id + 1
                      ELSE next_party_id
  /\ UNCHANGED <<now, next_invitation_id>>

GetParty(party_id) ==
  /\ PartyCall("get_party", get_party(party_id))
  /\ UNCHANGED <<now, next_party_id, next_invitation_id>>

JoinParty(party_id, account_id) ==
  /\ PartyCall("join_party",
               join_party(active_parties, user_parties, db_parties, party_id,
                          account_id))
  /\ UNCHANGED <<now, next_party_id, next_invitation_id>>

LeaveParty(party_id, account_id) ==
  /\ PartyCall("leave_party", leave_party(party_id, account_id))
  /\ UNCHANGED <<now, next_party_id, next_invitation_id>>

UpdateMemberReadyState(party_id, account_id, ready) ==
  /\ PartyCall("update_member_ready_state",
               update_member_ready_state(active_parties, db_parties, now,
                                         party_id, account_id, ready))
  /\ UNCHANGED <<now, next_party_id, next_invitation_id>>

SendInvitation(party_id, from_account_id, to_account_id) ==
  LET r == send_invitation(party_id, from_account_id, to_account_id) IN
  /\ r.result = "SENT" => next_invitation_id <= MaxInvitations
  /\ PartyCall("send_invitation", r)
  /\ next_invitation_id' = IF r.result = "SENT" THEN next_invitation_id + 1
                           ELSE next_invitation_id
  /\ UNCHANGED <<now, next_party_id>>

RespondInvitation(invitation_id, account_id, response) ==
  /\ PartyCall("respond_to_invitation",
               respond_to_invitation(invitation_id, account_id, response))
  /\ UNCHANGED <<now, next_party_id, next_invitation_id>>

GetUserInvitations(account_id) ==
  /\ PartyCall("get_user_invitations", get_user_invitations(account_id))
  /\ UNCHANGED <<now, next_party_id, next_invitation_id>>

CleanupExpiredInvitations ==
  /\ PartyCall("cleanup_expired_invitations", cleanup_expired_invitations)
  /\ UNCHANGED <<now, next_party_id, next_invitation_id>>

(* ---------------- join_party on two threads ---------------- *)
\* The server runs with threaded=True and PartyService takes no lock: another
\* thread can run between the checks of join_party and its append.

\* lines 154-186 of join_party: the append and what follows it, on the party
\* as it is by then
join_party_append(party_id, account_id) ==
  LET party2 == [active_parties[party_id] EXCEPT
                   !.members = Append(@, new_member(account_id, "MEMBER")),
                   !.updated_at = now]
  IN PartyResult("JOINED", Put(active_parties, party_id, party2),
                 party_invitations, Put(user_parties, account_id, party_id),
                 save_party(db_parties, party_id, party2),
                 OneEvent(PartyRoomEvent("party_member_joined", party_id)))

\* lines 131-152: a failed check returns; after the last check the thread
\* may be suspended
JoinPartyBegin(t, party_id, account_id) ==
  LET r == join_party(active_parties, user_parties, db_parties, party_id,
                      account_id)
  IN /\ in_flight[t] = Idle
     /\ IF r.result = "JOINED"
        THEN /\ in_flight' = [in_flight EXCEPT ![t] =
                               [op |-> "join_party", party_id |-> party_id,
                                account_id |-> account_id]]
             /\ active_parties' =
                  IF party_id \in DOMAIN active_parties THEN active_parties
                  ELSE Put(active_parties, party_id, db_parties[party_id])
             /\ UNCHANGED <<party_invitations, user_parties, db_parties,
                            emitted, reply, friends_vars, presence_vars,
                            connected_clients>>
        ELSE PartyCall("join_party", r)
     /\ UNCHANGED <<now, next_party_id, next_invitation_id>>

\* the thread resumes; no call of the specification that uses these steps
\* removes a party
JoinPartyFinish(t) ==
  /\ in_flight[t].op = "join_party"
  /\ PartyEffect("join_party",
                 join_party_append(in_flight[t].party_id,
                                   in_flight[t].account_id))
  /\ in_flight' = [in_flight EXCEPT ![t] = Idle]
  /\ UNCHANGED <<now, next_party_id, next_invitation_id>>

(* ---------------- leave_party beside a suspended call ---------------- *)
\* join_party and update_member_ready_state work on `party`, a reference to
\* the dict that active_parties holds. When leave_party deletes the party
\* from the map while such a call is suspended, the call still holds the
\* dict, now in no map: its thread keeps it in the field `party`.
Held(t) ==
  IF "party" \in DOMAIN in_flight[t] THEN in_flight[t].party
  ELSE active_parties[in_flight[t].party_id]

\* lines 191-242 as one step of another thread; the dict of a deleted party
\* stays with the threads that are working on it
LeavePartyBeside(party_id, account_id) ==
  LET r == leave_party(party_id, account_id)
      deleted == party_id \in DOMAIN active_parties
                   /\ party_id \notin DOMAIN r.ap
  IN /\ PartyEffect("leave_party", r)
     /\ in_flight' =
          [t \in Threads |->
             IF /\ deleted
                /\ in_flight[t] # Idle
                /\ "party" \notin DOMAIN in_flight[t]
                /\ in_flight[t].party_id = party_id
             THEN [op |-> in_flight[t].op,
                   party_id |-> party_id,
                   account_id |-> in_flight[t].account_id,
                   party |-> [active_parties[party_id] EXCEPT
                                !.members = <<>>, !.updated_at = now]]
             ELSE in_flight[t]]
     /\ UNCHANGED <<now, next_party_id, next_invitation_id>>

\* lines 154-186 of join_party on the dict the thread holds: the append, the
\* entry of user_parties, save_party and the event
JoinPartyResume(t) ==
  LET party_id == in_flight[t].party_id
      account_id == in_flight[t].account_id
      party2 == [Held(t) EXCEPT
                   !.members = Append(@, new_member(account_id, "MEMBER")),
                   !.updated_at = now]
  IN /\ in_flight[t].op = "join_party"
     /\ PartyEffect("join_party",
          PartyResult("JOINED",
            IF "party" \in DOMAIN in_flight[t] THEN active_parties
            ELSE Put(active_parties, party_id, party2),
            party_invitations, Put(user_parties, account_id, party_id),
            save_party(db_parties, party_id, party2),
            OneEvent(PartyRoomEvent("party_member_joined", party_id))))
     /\ in_flight' = [in_flight EXCEPT ![t] = Idle]
     /\ UNCHANGED <<now, next_party_id, next_invitation_id>>

\* lines 368-383 of update_member_ready_state: a failed lookup returns;
\* after the member is marked and updated_at is set the thread may be
\* suspended before save_party
UpdateMemberReadyStateBegin(t, party_id, account_id, ready) ==
  LET r == update_member_ready_state(active_parties, db_parties, now,
                                     party_id, account_id, ready)
  IN /\ in_flight[t] = Idle
     /\ IF r.result = "UPDATED"
        THEN /\ in_flight' = [in_flight EXCEPT ![t] =
                               [op |-> "update_member_ready_state",
                                party_id |-> party_id,
                                account_id |-> account_id]]
             /\ active_parties' = r.ap
             /\ UNCHANGED <<party_invitations, user_parties, db_parties,
                            emitted, reply, friends_vars, presence_vars,
                            connected_clients>>
        ELSE PartyCall("update_member_ready_state", r)
     /\ UNCHANGED <<now, next_party_id, next_invitation_id>>

\* lines 385-401: save_party of the dict the thread holds, and the event
UpdateMemberReadyStateFinish(t) ==
  LET party_id == in_flight[t].party_id
  IN /\ in_flight[t].op = "update_member_ready_state"
     /\ PartyEffect("update_member_ready_state",
          PartyResult("UPDATED", active_parties, party_invitations,
            user_parties, save_party(db_parties, party_id, Held(t)),
            OneEvent(PartyRoomEvent("party_member_ready_changed",
                                    party_id))))
     /\ in_flight' = [in_flight EXCEPT ![t] = Idle]
     /\ UNCHANGED <<now, next_party_id, next_invitation_id>>

\* the clock moves by one invitation lifetime, or by one second more
PartyTick ==
  /\ \E d \in {invitation_timeout, invitation_timeout + 1} :
        /\ now + d <= MaxPartyTime
        /\ now' = now + d
  /\ UNCHANGED <<party_vars, friends_vars, presence_vars,
                 connected_clients, emitted, in_flight, reply>>

(* ---------------- PresenceService: subscriptions ---------------- *)
RECURSIVE subscribe_to_presence(_, _, _, _)
\* the loop of subscribe_to_presence over target_ids; the two maps it leaves
subscribe_to_presence(psub, usub, subscriber_id, target_ids) ==
  IF target_ids = {} THEN [psub |-> psub, usub |-> usub]
  ELSE
    LET target_id == CHOOSE t \in target_ids : TRUE
        subscribers == IF target_id \in DOMAIN psub THEN psub[target_id]
                       ELSE {}
        targets == IF subscriber_id \in DOMAIN usub THEN usub[subscriber_id]
                   ELSE {}
    IN subscribe_to_presence(
         Put(psub, target_id, subscribers \cup {subscriber_id}),
         Put(usub, subscriber_id, targets \cup {target_id}),
         subscriber_id, target_ids \ {target_id})

RECURSIVE unsubscribe_each(_, _, _, _)
unsubscribe_each(psub, usub, subscriber_id, target_ids) ==
  IF target_ids = {} THEN [psub |-> psub, usub |-> usub]
  ELSE
    LET target_id == CHOOSE t \in target_ids : TRUE
        psub2 == IF target_id \in DOMAIN psub
                 THEN IF psub[target_id] \ {subscriber_id} = {}
                      THEN Del(psub, target_id)
                      ELSE Put(psub, target_id,
                               psub[target_id] \ {subscriber_id})
                 ELSE psub
        usub2 == IF subscriber_id \in DOMAIN usub
                 THEN Put(usub, subscriber_id,
                          usub[subscriber_id] \ {target_id})
                 ELSE usub
    IN unsubscribe_each(psub2, usub2, subscriber_id,
                        target_ids \ {target_id})

\* unsubscribe_from_presence with a list of targets
unsubscribe_from_presence(psub, usub, subscriber_id, target_ids) ==
  LET r == unsubscribe_each(psub, usub, subscriber_id, target_ids)
  IN IF subscriber_id \in DOMAIN r.usub /\ r.usub[subscriber_id] = {}
     THEN [psub |-> r.psub, usub |-> Del(r.usub, subscriber_id)]
     ELSE r

\* unsubscribe_from_presence with target_ids = None: every target of the
\* subscriber
unsubscribe_from_all(psub, usub, subscriber_id) ==
  unsubscribe_from_presence(psub, usub, subscriber_id,
                            IF subscriber_id \in DOMAIN usub
                            THEN usub[subscriber_id] ELSE {})

(* ---------------- FriendsService ---------------- *)
AlreadyFriends == "Users are already friends"
Blocked == "Cannot send friend request to this user"
DuplicateRequest == "Friend request already sent"
RequestNotFound == "Friend request not found"
Unauthorized == "Unauthorized to respond to this request"
RequestExpired == "Friend request has expired"
NotFriends == "Users are not friends"
NotBlocked == "User is not blocked"

FriendsResult(result, fl, bu, fr, pr, psub, usub, em) ==
  [result |-> result, fl |-> fl, bu |-> bu, fr |-> fr, pr |-> pr,
   psub |-> psub, usub |-> usub, em |-> em]
FriendsFailure(result) ==
  FriendsResult(result, friend_lists, blocked_users, friend_requests,
                pending_requests, presence_subscriptions,
                user_subscriptions, EmptyBag)

friends_in(fl, account_id1, account_id2) ==
  account_id1 \in DOMAIN fl /\ account_id2 \in fl[account_id1]
are_friends(account_id1, account_id2) ==
  friends_in(friend_lists, account_id1, account_id2)

is_blocked(account_id, target_id) ==
  account_id \in DOMAIN blocked_users
    /\ target_id \in blocked_users[account_id]

_add_friendship_one_way(fl, account_id1, account_id2) ==
  Put(fl, account_id1,
      (IF account_id1 \in DOMAIN fl THEN fl[account_id1] ELSE {})
        \cup {account_id2})
_add_friendship(fl, account_id1, account_id2) ==
  LET fl1 == IF account_id1 \in DOMAIN fl THEN fl
             ELSE Put(fl, account_id1, {})
      fl2 == IF account_id2 \in DOMAIN fl1 THEN fl1
             ELSE Put(fl1, account_id2, {})
      fl3 == Put(fl2, account_id1, fl2[account_id1] \cup {account_id2})
  IN Put(fl3, account_id2, fl3[account_id2] \cup {account_id1})

_find_existing_request(pr, from_id, to_id) ==
  {id \in DOMAIN pr : /\ pr[id].from_account_id = from_id
                      /\ pr[id].to_account_id = to_id
                      /\ pr[id].status = "PENDING"}

\* the request dropped from the recipient's list only
_remove_friend_request_list_only(fr, pr, request_id, account_id) ==
  [pr |-> pr,
   fr |-> IF account_id \in DOMAIN fr
          THEN Put(fr, account_id,
                   SelectSeq(fr[account_id],
                             LAMBDA req : req.id # request_id))
          ELSE fr]
\* the two maps without the request
_remove_friend_request(fr, pr, request_id, account_id) ==
  [pr |-> IF request_id \in DOMAIN pr THEN Del(pr, request_id) ELSE pr,
   fr |-> IF account_id \in DOMAIN fr
          THEN Put(fr, account_id,
                   SelectSeq(fr[account_id],
                             LAMBDA req : req.id # request_id))
          ELSE fr]

RECURSIVE remove_requests(_, _, _)
remove_requests(fr, pr, request_ids) ==
  IF request_ids = {} THEN [pr |-> pr, fr |-> fr]
  ELSE LET request_id == CHOOSE id \in request_ids : TRUE
           r == IF request_id \in DOMAIN pr
                THEN _remove_friend_request(fr, pr, request_id,
                                            pr[request_id].to_account_id)
                ELSE [pr |-> pr, fr |-> fr]
       IN remove_requests(r.fr, r.pr, request_ids \ {request_id})

\* only the requests from the first account to the second
_remove_all_requests_one_way(fr, pr, account_id1, account_id2) ==
  remove_requests(fr, pr,
    {id \in DOMAIN pr :
       /\ pr[id].from_account_id = account_id1
       /\ pr[id].to_account_id = account_id2})
_remove_all_requests_between_users(fr, pr, account_id1, account_id2) ==
  remove_requests(fr, pr,
    {id \in DOMAIN pr :
       \/ /\ pr[id].from_account_id = account_id1
          /\ pr[id].to_account_id = account_id2
       \/ /\ pr[id].from_account_id = account_id2
          /\ pr[id].to_account_id = account_id1})

send_friend_request(from_account_id, to_account_id) ==
  IF are_friends(from_account_id, to_account_id)
  THEN FriendsFailure(AlreadyFriends)
  ELSE IF is_blocked(to_account_id, from_account_id)
  THEN FriendsFailure(Blocked)
  ELSE IF _find_existing_request(pending_requests, from_account_id,
                                 to_account_id) # {}
  THEN FriendsFailure(DuplicateRequest)
  ELSE
    LET friend_request ==
          [id |-> next_request_id, from_account_id |-> from_account_id,
           to_account_id |-> to_account_id, status |-> "PENDING",
           created_at |-> now,
           expires_at |-> now + friend_request_timeout]
        mine == IF to_account_id \in DOMAIN friend_requests
                THEN friend_requests[to_account_id] ELSE <<>>
    IN FriendsResult("SENT", friend_lists, blocked_users,
                     Put(friend_requests, to_account_id,
                         Append(mine, friend_request)),
                     Put(pending_requests, friend_request.id,
                         friend_request),
                     presence_subscriptions, user_subscriptions,
                     NotifyClient("friend_request_received",
                                  to_account_id))

\* only the sender of the request is subscribed to the recipient
respond_to_friend_request_one_subscription(request_id, account_id, response) ==
  IF request_id \notin DOMAIN pending_requests
  THEN FriendsFailure(RequestNotFound)
  ELSE
    LET friend_request == pending_requests[request_id]
        from_id == friend_request.from_account_id
        to_id == friend_request.to_account_id
    IN
    IF to_id # account_id THEN FriendsFailure(Unauthorized)
    ELSE IF is_expired(friend_request.expires_at, now)
    THEN FriendsFailure(RequestExpired)
    ELSE
      LET accept == Upper(response) = "ACCEPT"
          fl == IF accept THEN _add_friendship(friend_lists, from_id, to_id)
                ELSE friend_lists
          s1 == IF accept
                THEN subscribe_to_presence(presence_subscriptions,
                                           user_subscriptions, from_id,
                                           {to_id})
                ELSE [psub |-> presence_subscriptions,
                      usub |-> user_subscriptions]
          s2 == s1
          \* the status written on the request is lost with the request
          rm == _remove_friend_request(friend_requests, pending_requests,
                                       request_id, account_id)
      IN FriendsResult(IF accept THEN "FRIENDS_ADDED" ELSE "OK", fl,
                       blocked_users, rm.fr, rm.pr, s2.psub, s2.usub,
                       NotifyClient("friend_request_response", from_id))
respond_to_friend_request(request_id, account_id, response) ==
  IF request_id \notin DOMAIN pending_requests
  THEN FriendsFailure(RequestNotFound)
  ELSE
    LET friend_request == pending_requests[request_id]
        from_id == friend_request.from_account_id
        to_id == friend_request.to_account_id
    IN
    IF to_id # account_id THEN FriendsFailure(Unauthorized)
    ELSE IF is_expired(friend_request.expires_at, now)
    THEN FriendsFailure(RequestExpired)
    ELSE
      LET accept == Upper(response) = "ACCEPT"
          fl == IF accept THEN _add_friendship(friend_lists, from_id, to_id)
                ELSE friend_lists
          s1 == IF accept
                THEN subscribe_to_presence(presence_subscriptions,
                                           user_subscriptions, from_id,
                                           {to_id})
                ELSE [psub |-> presence_subscriptions,
                      usub |-> user_subscriptions]
          s2 == IF accept
                THEN subscribe_to_presence(s1.psub, s1.usub, to_id,
                                           {from_id})
                ELSE s1
          \* the status written on the request is lost with the request
          rm == _remove_friend_request(friend_requests, pending_requests,
                                       request_id, account_id)
      IN FriendsResult(IF accept THEN "FRIENDS_ADDED" ELSE "OK", fl,
                       blocked_users, rm.fr, rm.pr, s2.psub, s2.usub,
                       NotifyClient("friend_request_response", from_id))

\* remove_friend reads the maps it is given: block_user calls it
remove_friend(fl, psub, usub, account_id, friend_id) ==
  IF ~friends_in(fl, account_id, friend_id)
  THEN [result |-> NotFriends, fl |-> fl, psub |-> psub, usub |-> usub,
        em |-> EmptyBag]
  ELSE
    LET fl1 == IF account_id \in DOMAIN fl
               THEN Put(fl, account_id, fl[account_id] \ {friend_id})
               ELSE fl
        fl2 == IF friend_id \in DOMAIN fl1
               THEN Put(fl1, friend_id, fl1[friend_id] \ {account_id})
               ELSE fl1
        s1 == unsubscribe_from_presence(psub, usub, account_id, {friend_id})
        s2 == unsubscribe_from_presence(s1.psub, s1.usub, friend_id,
                                        {account_id})
    IN [result |-> "REMOVED", fl |-> fl2, psub |-> s2.psub,
        usub |-> s2.usub,
        em |-> NotifyClient("friend_removed", account_id)
                 (+) NotifyClient("friend_removed", friend_id)]

\* a block of a target that is blocked already takes the block away
block_user_toggle(fl, bu, fr, pr, psub, usub, account_id, target_id) ==
  LET rf == IF friends_in(fl, account_id, target_id)
            THEN remove_friend(fl, psub, usub, account_id, target_id)
            ELSE [result |-> "", fl |-> fl, psub |-> psub, usub |-> usub,
                  em |-> EmptyBag]
      old == IF account_id \in DOMAIN bu THEN bu[account_id] ELSE {}
      bu1 == Put(bu, account_id,
                 IF target_id \in old THEN old \ {target_id}
                 ELSE old \cup {target_id})
      rm == _remove_all_requests_between_users(fr, pr, account_id, target_id)
  IN FriendsResult("BLOCKED", rf.fl, bu1, rm.fr, rm.pr, rf.psub, rf.usub,
                   rf.em)
\* block_user on the maps it is given, so that a second call can be applied
\* to what the first one left
block_user_on(fl, bu, fr, pr, psub, usub, account_id, target_id) ==
  LET rf == IF friends_in(fl, account_id, target_id)
            THEN remove_friend(fl, psub, usub, account_id, target_id)
            ELSE [result |-> "", fl |-> fl, psub |-> psub, usub |-> usub,
                  em |-> EmptyBag]
      bu1 == Put(bu, account_id,
                 (IF account_id \in DOMAIN bu THEN bu[account_id] ELSE {})
                   \cup {target_id})
      rm == _remove_all_requests_between_users(fr, pr, account_id, target_id)
  IN FriendsResult("BLOCKED", rf.fl, bu1, rm.fr, rm.pr, rf.psub, rf.usub,
                   rf.em)

block_user(account_id, target_id) ==
  block_user_on(friend_lists, blocked_users, friend_requests,
                pending_requests, presence_subscriptions, user_subscriptions,
                account_id, target_id)

unblock_user(account_id, target_id) ==
  IF ~is_blocked(account_id, target_id) THEN FriendsFailure(NotBlocked)
  ELSE
    LET left == blocked_users[account_id] \ {target_id}
        bu == IF left = {} THEN Del(blocked_users, account_id)
              ELSE Put(blocked_users, account_id, left)
    IN FriendsResult("UNBLOCKED", friend_lists, bu, friend_requests,
                     pending_requests, presence_subscriptions,
                     user_subscriptions, EmptyBag)

\* get_friend_requests with request_type 'incoming'
get_friend_requests(account_id) ==
  FriendsResult(IF account_id \in DOMAIN friend_requests
                THEN friend_requests[account_id] ELSE <<>>,
                friend_lists, blocked_users, friend_requests,
                pending_requests, presence_subscriptions,
                user_subscriptions, EmptyBag)

cleanup_expired_requests ==
  LET rm == remove_requests(friend_requests, pending_requests,
              {id \in DOMAIN pending_requests :
                 is_expired(pending_requests[id].expires_at, now)})
  IN FriendsResult("OK", friend_lists, blocked_users, rm.fr, rm.pr,
                   presence_subscriptions, user_subscriptions, EmptyBag)

FriendsEffect(op, r) ==
  /\ UNCHANGED <<party_vars, user_presence, connected_clients>>
  /\ friend_lists' = r.fl
  /\ blocked_users' = r.bu
  /\ friend_requests' = r.fr
  /\ pending_requests' = r.pr
  /\ presence_subscriptions' = r.psub
  /\ user_subscriptions' = r.usub
  /\ emitted' = r.em
  /\ reply' = [op |-> op, result |-> r.result]

\* a call that runs from its first line to its return with no other thread
\* in between
FriendsCall(op, r) == FriendsEffect(op, r) /\ UNCHANGED in_flight

SendFriendRequest(from_account_id, to_account_id) ==
  LET r == send_friend_request(from_account_id, to_account_id) IN
  /\ r.result = "SENT" => next_request_id <= MaxRequests
  /\ FriendsCall("send_friend_request", r)
  /\ next_request_id' = IF r.result = "SENT" THEN next_request_id + 1
                        ELSE next_request_id
  /\ UNCHANGED now

RespondFriendRequest(request_id, account_id, response) ==
  /\ FriendsCall("respond_to_friend_request",
                 respond_to_friend_request(request_id, account_id, response))
  /\ UNCHANGED <<now, next_request_id>>

RemoveFriend(account_id, friend_id) ==
  LET r == remove_friend(friend_lists, presence_subscriptions,
                         user_subscriptions, account_id, friend_id)
  IN /\ FriendsCall("remove_friend",
                    FriendsResult(r.result, r.fl, blocked_users,
                                  friend_requests, pending_requests, r.psub,
                                  r.usub, r.em))
     /\ UNCHANGED <<now, next_request_id>>

(* ---------------- remove_friend on a thread of its own ---------------- *)
\* FriendsService takes no lock either: another thread can run between the
\* two discard statements of remove_friend.

\* lines 145-150: the test, and the discard from the caller's set
RemoveFriendBegin(t, account_id, friend_id) ==
  /\ in_flight[t] = Idle
  /\ IF ~are_friends(account_id, friend_id)
     THEN FriendsCall("remove_friend", FriendsFailure(NotFriends))
     ELSE /\ in_flight' = [in_flight EXCEPT ![t] =
                            [op |-> "remove_friend",
                             account_id |-> account_id,
                             friend_id |-> friend_id]]
          /\ friend_lists' =
               IF account_id \in DOMAIN friend_lists
               THEN Put(friend_lists, account_id,
                        friend_lists[account_id] \ {friend_id})
               ELSE friend_lists
          /\ UNCHANGED <<blocked_users, friend_requests, pending_requests,
                         party_vars, presence_vars, connected_clients,
                         emitted, reply>>
  /\ UNCHANGED <<now, next_request_id>>

\* lines 152-166: the discard from the friend's set, the two unsubscribe
\* calls, the notification and the return
RemoveFriendFinish(t) ==
  LET account_id == in_flight[t].account_id
      friend_id == in_flight[t].friend_id
      fl2 == IF friend_id \in DOMAIN friend_lists
             THEN Put(friend_lists, friend_id,
                      friend_lists[friend_id] \ {account_id})
             ELSE friend_lists
      s1 == unsubscribe_from_presence(presence_subscriptions,
                                      user_subscriptions, account_id,
                                      {friend_id})
      s2 == unsubscribe_from_presence(s1.psub, s1.usub, friend_id,
                                      {account_id})
  IN /\ in_flight[t].op = "remove_friend"
     /\ FriendsEffect("remove_friend",
                      FriendsResult("REMOVED", fl2, blocked_users,
                                    friend_requests, pending_requests,
                                    s2.psub, s2.usub,
                                    NotifyClient("friend_removed", account_id)
                                      (+) NotifyClient("friend_removed",
                                                       friend_id)))
     /\ in_flight' = [in_flight EXCEPT ![t] = Idle]
     /\ UNCHANGED <<now, next_request_id>>

BlockCount ==
  Cardinality({ab \in Accounts \X Accounts : is_blocked(ab[1], ab[2])})

BlockUser(account_id, target_id) ==
  /\ ~is_blocked(account_id, target_id) => BlockCount < MaxBlocks
  /\ FriendsCall("block_user", block_user(account_id, target_id))
  /\ UNCHANGED <<now, next_request_id>>

UnblockUser(account_id, target_id) ==
  /\ FriendsCall("unblock_user", unblock_user(account_id, target_id))
  /\ UNCHANGED <<now, next_request_id>>

GetFriendRequests(account_id) ==
  /\ FriendsCall("get_friend_requests", get_friend_requests(account_id))
  /\ UNCHANGED <<now, next_request_id>>

CleanupExpiredRequests ==
  /\ FriendsCall("cleanup_expired_requests", cleanup_expired_requests)
  /\ UNCHANGED <<now, next_request_id>>

\* the clock moves by one request lifetime, or by one second more
FriendsTick ==
  /\ \E d \in {friend_request_timeout, friend_request_timeout + 1} :
        /\ now + d <= MaxFriendsTime
        /\ now' = now + d
  /\ UNCHANGED <<party_vars, friends_vars, presence_vars,
                 connected_clients, emitted, in_flight, reply>>

(* ---------------- PresenceService ---------------- *)
valid_states == {"online", "away", "dnd", "offline"}
activity_types == {"lobby", "match", "creative", "stw", "party",
                   "matchmaking"}
InvalidStatus == "Invalid status"

PresenceResult(result, up, psub, usub, em) ==
  [result |-> result, up |-> up, psub |-> psub, usub |-> usub, em |-> em]

\* dict.update and item assignment on the properties of a presence
MergeProps(f, g) ==
  [k \in (DOMAIN f) \cup (DOMAIN g) |-> IF k \in DOMAIN g THEN g[k] ELSE f[k]]

NotifyEveryClient(event, account_id) ==
  SetToBag({ClientEvent(event, connected_clients[i].client_id) :
              i \in ClientsOf(account_id)})

RECURSIVE EmitToEach(_, _)
\* one pass of the loop over subscribers for each of them
EmitToEach(event, subscribers) ==
  IF subscribers = {} THEN EmptyBag
  ELSE LET subscriber_id == CHOOSE x \in subscribers : TRUE
       IN NotifyClient(event, subscriber_id)
            (+) EmitToEach(event, subscribers \ {subscriber_id})

RECURSIVE EmitToEachClient(_, _)
EmitToEachClient(event, subscribers) ==
  IF subscribers = {} THEN EmptyBag
  ELSE LET subscriber_id == CHOOSE x \in subscribers : TRUE
       IN NotifyEveryClient(event, subscriber_id)
            (+) EmitToEachClient(event, subscribers \ {subscriber_id})

broadcast_to_every_client(psub, account_id) ==
  IF account_id \notin DOMAIN psub THEN EmptyBag
  ELSE EmitToEachClient("presence_update", psub[account_id])
broadcast_presence_update(psub, account_id) ==
  IF account_id \notin DOMAIN psub THEN EmptyBag
  ELSE EmitToEach("presence_update", psub[account_id])

\* the status is stored and broadcast whatever it is
set_presence_unvalidated(account_id, status, activity, properties) ==
    LET props ==
          IF activity \in activity_types
          THEN MergeProps(properties,
                 [FortBasicInfo_j |->
                    IF status = "online" /\ activity # "lobby"
                    THEN "bIsPlaying" ELSE "not bIsPlaying",
                  FortLFG_I |-> "not bInLFG",
                  party_id |-> "", playlist |-> "None"])
          ELSE properties
        presence == [account_id |-> account_id, status |-> status,
                     last_online |-> now, properties |-> props]
    IN PresenceResult("UPDATED", Put(user_presence, account_id, presence),
                      presence_subscriptions, user_subscriptions,
                      broadcast_presence_update(presence_subscriptions,
                                                account_id))
set_presence(account_id, status, activity, properties) ==
  IF status \notin valid_states
  THEN PresenceResult(InvalidStatus, user_presence, presence_subscriptions,
                      user_subscriptions, EmptyBag)
  ELSE
    LET props ==
          IF activity \in activity_types
          THEN MergeProps(properties,
                 [FortBasicInfo_j |->
                    IF status = "online" /\ activity # "lobby"
                    THEN "bIsPlaying" ELSE "not bIsPlaying",
                  FortLFG_I |-> "not bInLFG",
                  party_id |-> "", playlist |-> "None"])
          ELSE properties
        presence == [account_id |-> account_id, status |-> status,
                     last_online |-> now, properties |-> props]
    IN PresenceResult("UPDATED", Put(user_presence, account_id, presence),
                      presence_subscriptions, user_subscriptions,
                      broadcast_presence_update(presence_subscriptions,
                                                account_id))

PresenceCall(op, r) ==
  /\ UNCHANGED <<now, party_vars, friends_vars, connected_clients,
                 in_flight>>
  /\ user_presence' = r.up
  /\ presence_subscriptions' = r.psub
  /\ user_subscriptions' = r.usub
  /\ emitted' = r.em
  /\ reply' = [op |-> op, result |-> r.result]

SetPresence(account_id, status, activity, properties) ==
  PresenceCall("set_presence",
               set_presence(account_id, status, activity, properties))

SubscriptionCount(psub) ==
  Cardinality({st \in Accounts \X Accounts :
                 st[2] \in DOMAIN psub /\ st[1] \in psub[st[2]]})

SubscribeToPresence(subscriber_id, target_ids) ==
  LET r == subscribe_to_presence(presence_subscriptions, user_subscriptions,
                                 subscriber_id, target_ids)
  IN /\ SubscriptionCount(r.psub) <= MaxSubscriptions
     /\ PresenceCall("subscribe_to_presence",
                     PresenceResult("SUBSCRIBED", user_presence, r.psub,
                                    r.usub, EmptyBag))

UnsubscribeFromPresence(subscriber_id, target_ids) ==
  LET r == unsubscribe_from_presence(presence_subscriptions,
                                     user_subscriptions, subscriber_id,
                                     target_ids)
  IN PresenceCall("unsubscribe_from_presence",
                  PresenceResult("UNSUBSCRIBED", user_presence, r.psub,
                                 r.usub, EmptyBag))

UnsubscribeFromAll(subscriber_id) ==
  LET r == unsubscribe_from_all(presence_subscriptions, user_subscriptions,
                                subscriber_id)
  IN PresenceCall("unsubscribe_from_presence",
                  PresenceResult("UNSUBSCRIBED", user_presence, r.psub,
                                 r.usub, EmptyBag))

\* the presence that get_presence makes up for an account that has none
default_presence(account_id) ==
  [account_id |-> account_id, status |-> "offline", last_online |-> now,
   properties |-> EmptyMap]

\* the made-up presence is stored
get_presence_storing(account_id) ==
  PresenceResult(IF account_id \notin DOMAIN user_presence
                 THEN default_presence(account_id)
                 ELSE user_presence[account_id],
                 IF account_id \notin DOMAIN user_presence
                 THEN Put(user_presence, account_id,
                          default_presence(account_id))
                 ELSE user_presence,
                 presence_subscriptions, user_subscriptions, EmptyBag)
get_presence(account_id) ==
  PresenceResult(IF account_id \notin DOMAIN user_presence
                 THEN default_presence(account_id)
                 ELSE user_presence[account_id],
                 user_presence, presence_subscriptions, user_subscriptions,
                 EmptyBag)

\* the route answers with the presence; of the answer the status is kept
GetPresence(account_id) ==
  LET r == get_presence(account_id)
  IN PresenceCall("get_presence",
                  PresenceResult(r.result.status, r.up, r.psub, r.usub,
                                 r.em))

\* the subscriptions of the account are kept
handle_user_disconnect_keeps_subscriptions(account_id) ==
  LET known == account_id \in DOMAIN user_presence
      offline_presence ==
        [user_presence[account_id] EXCEPT
           !.status = "offline", !.last_online = now,
           !.properties = EmptyMap]
  IN PresenceResult("OK",
       IF known THEN Put(user_presence, account_id, offline_presence)
       ELSE user_presence,
       presence_subscriptions, user_subscriptions,
       IF known
       THEN broadcast_presence_update(presence_subscriptions, account_id)
       ELSE EmptyBag)
handle_user_disconnect(account_id) ==
  LET known == account_id \in DOMAIN user_presence
      offline_presence ==
        [user_presence[account_id] EXCEPT
           !.status = "offline", !.last_online = now,
           !.properties = EmptyMap]
      un == unsubscribe_from_all(presence_subscriptions, user_subscriptions,
                                 account_id)
  IN PresenceResult("OK",
       IF known THEN Put(user_presence, account_id, offline_presence)
       ELSE user_presence,
       un.psub, un.usub,
       IF known
       THEN broadcast_presence_update(presence_subscriptions, account_id)
       ELSE EmptyBag)

HandleUserDisconnect(account_id) ==
  PresenceCall("handle_user_disconnect", handle_user_disconnect(account_id))

\* offline_threshold_minutes of cleanup_offline_users, in seconds
offline_threshold == 1800

\* the accounts that cleanup_offline_users collects before it removes any
users_to_remove ==
  {a \in DOMAIN user_presence :
     /\ user_presence[a].status = "offline"
     /\ user_presence[a].last_online < now - offline_threshold}

RECURSIVE remove_offline_users(_, _, _, _)
\* one pass of the removal loop for each collected account
remove_offline_users(up, psub, usub, accounts) ==
  IF accounts = {} THEN [up |-> up, psub |-> psub, usub |-> usub]
  ELSE
    LET account_id == CHOOSE a \in accounts : TRUE
        un == unsubscribe_from_all(psub, usub, account_id)
    IN remove_offline_users(Del(up, account_id), Del(un.psub, account_id),
                            un.usub, accounts \ {account_id})

cleanup_offline_users ==
  LET r == remove_offline_users(user_presence, presence_subscriptions,
                                user_subscriptions, users_to_remove)
  IN PresenceResult(Cardinality(users_to_remove), r.up, r.psub, r.usub,
                    EmptyBag)

CleanupOfflineUsers ==
  PresenceCall("cleanup_offline_users", cleanup_offline_users)

\* the clock moves by the offline threshold, or by one second more
PresenceTick ==
  /\ \E d \in {offline_threshold, offline_threshold + 1} :
        /\ now + d <= MaxPresenceTime
        /\ now' = now + d
  /\ UNCHANGED <<party_vars, friends_vars, presence_vars,
                 connected_clients, emitted, in_flight, reply>>

(* ---------------- WebSocketHandler: connections ---------------- *)
\* update_presence of the handler: a presence_update to every client
BroadcastEvent(event) == [event |-> event, room |-> "broadcast", id |-> 0]

\* handle_connect of a client that names its account (the handler's own
\* presence_data, which no service reads, is left out)
ClientConnect(client_id, account_id) ==
  /\ \A i \in 1..Len(connected_clients) :
        connected_clients[i].client_id # client_id
  /\ connected_clients' =
       Append(connected_clients,
              [client_id |-> client_id, account_id |-> account_id])
  /\ emitted' = OneEvent(BroadcastEvent("presence_update"))
                  (+) OneEvent(ClientEvent("connected", client_id))
  /\ reply' = [op |-> "connect", result |-> "OK"]
  /\ UNCHANGED <<now, party_vars, friends_vars, presence_vars, in_flight>>

\* handle_disconnect of a client that is in no party room
ClientDisconnect(client_id) ==
  /\ \E i \in 1..Len(connected_clients) :
        /\ connected_clients[i].client_id = client_id
        /\ connected_clients' = RemoveAt(connected_clients, i)
  /\ emitted' = OneEvent(BroadcastEvent("presence_update"))
  /\ reply' = [op |-> "disconnect", result |-> "OK"]
  /\ UNCHANGED <<now, party_vars, friends_vars, presence_vars, in_flight>>

\* the clock moves by one second
MemberTick ==
  /\ now + 1 <= MaxMemberTime
  /\ now' = now + 1
  /\ UNCHANGED <<party_vars, friends_vars, presence_vars,
                 connected_clients, emitted, in_flight, reply>>

Init ==
  /\ now = 0
  /\ active_parties = EmptyMap
  /\ party_invitations = EmptyMap
  /\ user_parties = EmptyMap
  /\ db_parties = EmptyMap
  /\ next_party_id = 1
  /\ next_invitation_id = 1
  /\ friend_lists = EmptyMap
  /\ blocked_users = EmptyMap
  /\ friend_requests = EmptyMap
  /\ pending_requests = EmptyMap
  /\ next_request_id = 1
  /\ user_presence = EmptyMap
  /\ presence_subscriptions = EmptyMap
  /\ user_subscriptions = EmptyMap
  /\ connected_clients = <<>>
  /\ emitted = EmptyBag
  /\ in_flight = [t \in Threads |-> Idle]
  /\ reply = [op |-> "init", result |-> "OK"]

PartyIds == 1..MaxParties
InvitationIds == 1..MaxInvitations

\* PartyService with the clock standing still
Next ==
  \/ \E a \in Accounts, n \in ConfigSizes : CreateParty(a, n)
  \/ \E p \in PartyIds : GetParty(p)
  \/ \E p \in PartyIds, a \in Accounts : JoinParty(p, a)
  \/ \E p \in PartyIds, a \in Accounts : LeaveParty(p, a)
  \/ \E p \in PartyIds, a \in Accounts, b \in Accounts :
        SendInvitation(p, a, b)
  \/ \E i \in InvitationIds, a \in Accounts, r \in Responses :
        RespondInvitation(i, a, r)
  \/ CleanupExpiredInvitations

Spec == Init /\ [][Next]_vars

\* invitations with the clock running: parties of the default size, members
\* arriving by invitation
NextTimed ==
  \/ \E a \in Accounts : CreateParty(a, max_party_size)
  \/ \E p \in PartyIds, a \in Accounts : LeaveParty(p, a)
  \/ \E p \in PartyIds, a \in Accounts, b \in Accounts :
        SendInvitation(p, a, b)
  \/ \E i \in InvitationIds, a \in Accounts, r \in {"ACCEPT", "DECLINE"} :
        RespondInvitation(i, a, r)
  \/ CleanupExpiredInvitations
  \/ PartyTick

SpecTimed == Init /\ [][NextTimed]_vars

\* the same steps when cleanup_expired_invitations is called again and
\* again, as a periodic task would call it
SpecSwept == SpecTimed /\ WF_vars(CleanupExpiredInvitations)

\* membership with the clock running, so that joined_at differs
NextMembers ==
  \/ \E a \in Accounts, n \in ConfigSizes : CreateParty(a, n)
  \/ \E p \in PartyIds, a \in Accounts : JoinParty(p, a)
  \/ \E p \in PartyIds, a \in Accounts : LeaveParty(p, a)
  \/ MemberTick

SpecMembers == Init /\ [][NextMembers]_vars

\* members that change their ready flag while the clock runs
NextReady ==
  \/ \E a \in Accounts, n \in ConfigSizes : CreateParty(a, n)
  \/ \E p \in PartyIds, a \in Accounts : JoinParty(p, a)
  \/ \E p \in PartyIds, a \in Accounts, ready \in BOOLEAN :
        UpdateMemberReadyState(p, a, ready)
  \/ MemberTick

SpecReady == Init /\ [][NextReady]_vars

RequestIds == 1..MaxRequests

\* invitations and friend requests that are answered with any response
NextResponses ==
  \/ \E a \in Requesters, n \in ConfigSizes : CreateParty(a, n)
  \/ \E p \in PartyIds, a \in Requesters, b \in Accounts :
        SendInvitation(p, a, b)
  \/ \E i \in InvitationIds, a \in Accounts,
        r \in {"ACCEPT", "DECLINE"} \cup OtherResponses :
        RespondInvitation(i, a, r)
  \/ \E a \in Requesters, b \in Accounts : SendFriendRequest(a, b)
  \/ \E i \in RequestIds, a \in Accounts,
        r \in {"ACCEPT", "DECLINE"} \cup OtherResponses :
        RespondFriendRequest(i, a, r)

SpecResponses == Init /\ [][NextResponses]_vars

\* invitations and friend requests that are declined or left to expire,
\* listed and swept
NextSweep ==
  \/ \E a \in Requesters, n \in ConfigSizes : CreateParty(a, n)
  \/ \E p \in PartyIds, a \in Requesters, b \in Accounts :
        SendInvitation(p, a, b)
  \/ \E i \in InvitationIds, a \in Accounts :
        RespondInvitation(i, a, "DECLINE")
  \/ \E a \in Requesters, b \in Accounts : SendFriendRequest(a, b)
  \/ \E i \in RequestIds, a \in Accounts :
        RespondFriendRequest(i, a, "DECLINE")
  \/ \E a \in Accounts : GetUserInvitations(a)
  \/ \E a \in Accounts : GetFriendRequests(a)
  \/ CleanupExpiredInvitations
  \/ CleanupExpiredRequests
  \/ PartyTick
  \/ FriendsTick

SpecSweep == Init /\ [][NextSweep]_vars

\* FriendsService, with the presence subscriptions it makes and drops; the
\* clock stands still
NextFriends ==
  \/ \E a \in Accounts, b \in Accounts : SendFriendRequest(a, b)
  \/ \E i \in RequestIds, a \in Accounts, r \in Responses :
        RespondFriendRequest(i, a, r)
  \/ \E a \in Accounts, b \in Accounts : RemoveFriend(a, b)
  \/ \E a \in Accounts, b \in Accounts : BlockUser(a, b)
  \/ \E a \in Accounts, b \in Accounts : UnblockUser(a, b)
  \/ CleanupExpiredRequests

SpecFriends == Init /\ [][NextFriends]_vars

\* friend requests with the clock running
NextFriendsTimed ==
  \/ \E a \in Accounts, b \in Accounts : SendFriendRequest(a, b)
  \/ \E i \in RequestIds, a \in Accounts, r \in {"ACCEPT", "DECLINE"} :
        RespondFriendRequest(i, a, r)
  \/ CleanupExpiredRequests
  \/ FriendsTick

SpecFriendsTimed == Init /\ [][NextFriendsTimed]_vars

\* friendships made by calls that run alone and removed by calls that other
\* threads can interleave with
NextFriendsRace ==
  \/ \E a \in Accounts, b \in Accounts : SendFriendRequest(a, b)
  \/ \E i \in RequestIds, a \in Accounts, r \in {"ACCEPT", "DECLINE"} :
        RespondFriendRequest(i, a, r)
  \/ \E t \in Threads, a \in Accounts, b \in Accounts :
        RemoveFriendBegin(t, a, b)
  \/ \E t \in Threads : RemoveFriendFinish(t)

SpecFriendsRace == Init /\ [][NextFriendsRace]_vars

ClientIds == 1..MaxClients
\* the lists of accounts a caller may subscribe to or unsubscribe from
TargetLists == {ts \in SUBSET Accounts : Cardinality(ts) \in 1..2}

\* the calls that callers may repeat: subscriptions made and dropped directly
\* or by an accepted friend request, and blocks
NextRetry ==
  \/ \E a \in Accounts, ts \in TargetLists : SubscribeToPresence(a, ts)
  \/ \E a \in Accounts, ts \in TargetLists : UnsubscribeFromPresence(a, ts)
  \/ \E a \in Accounts : UnsubscribeFromAll(a)
  \/ \E a \in Requesters : \E b \in Accounts \ {a} :
        SendFriendRequest(a, b)
  \/ \E i \in RequestIds, a \in Accounts :
        RespondFriendRequest(i, a, "ACCEPT")
  \/ \E a \in Accounts, b \in Accounts : BlockUser(a, b)

SpecRetry == Init /\ [][NextRetry]_vars

\* PresenceService and the connections its broadcasts look up
NextPresence ==
  \/ \E a \in Accounts, st \in StatusInputs, act \in ActivityInputs,
        props \in PropertyInputs : SetPresence(a, st, act, props)
  \/ \E a \in Accounts, ts \in TargetLists : SubscribeToPresence(a, ts)
  \/ \E a \in Accounts, ts \in TargetLists : UnsubscribeFromPresence(a, ts)
  \/ \E a \in Accounts : UnsubscribeFromAll(a)
  \/ \E c \in ClientIds, a \in Accounts : ClientConnect(c, a)
  \/ \E c \in ClientIds : ClientDisconnect(c)

SpecPresence == Init /\ [][NextPresence]_vars

\* the accounts that set a presence where presences are followed to their
\* removal; the other account never has one
Publishers == {1, 2}

\* presences that are read, go offline with their connection and are
\* collected when they have been offline for long
NextSessions ==
  \/ \E a \in Publishers, props \in PropertyInputs :
        SetPresence(a, "online", "match", props)
  \/ \E a \in Accounts, ts \in TargetLists : SubscribeToPresence(a, ts)
  \/ \E a \in Accounts : GetPresence(a)
  \/ \E a \in Accounts : HandleUserDisconnect(a)
  \/ CleanupOfflineUsers
  \/ \E a \in Accounts : ClientConnect(1, a)
  \/ PresenceTick

SpecSessions == Init /\ [][NextSessions]_vars

\* membership when the caller chooses any max_size
NextSizes ==
  \/ \E a \in Accounts, n \in AnySizes : CreateParty(a, n)
  \/ \E p \in PartyIds : GetParty(p)
  \/ \E p \in PartyIds, a \in Accounts : JoinParty(p, a)
  \/ \E p \in PartyIds, a \in Accounts : LeaveParty(p, a)

SpecSizes == Init /\ [][NextSizes]_vars

\* the accounts that have a join under way
Joining == {in_flight[t].account_id :
              t \in {u \in Threads : in_flight[u].op = "join_party"}}

\* parties whose joins run on several threads, each account making one
\* request at a time
NextRace ==
  \/ \E a \in Accounts, n \in ConfigSizes : CreateParty(a, n)
  \/ \E t \in Threads, p \in PartyIds, a \in Accounts \ Joining :
        JoinPartyBegin(t, p, a)
  \/ \E t \in Threads : JoinPartyFinish(t)

SpecRace == Init /\ [][NextRace]_vars

\* the server process starts again: every service is constructed with empty
\* maps; the parties table, the clock and the ids already given out stay
Restart ==
  /\ active_parties' = EmptyMap
  /\ party_invitations' = EmptyMap
  /\ user_parties' = EmptyMap
  /\ friend_lists' = EmptyMap
  /\ blocked_users' = EmptyMap
  /\ friend_requests' = EmptyMap
  /\ pending_requests' = EmptyMap
  /\ user_presence' = EmptyMap
  /\ presence_subscriptions' = EmptyMap
  /\ user_subscriptions' = EmptyMap
  /\ connected_clients' = <<>>
  /\ emitted' = EmptyBag
  /\ in_flight' = [t \in Threads |-> Idle]
  /\ reply' = [op |-> "restart", result |-> "OK"]
  /\ UNCHANGED <<now, db_parties, next_party_id, next_invitation_id,
                 next_request_id>>

\* parties that outlive the process in the parties table
NextRestart ==
  \/ \E a \in Accounts, n \in ConfigSizes : CreateParty(a, n)
  \/ \E p \in PartyIds : GetParty(p)
  \/ \E p \in PartyIds, a \in Accounts : JoinParty(p, a)
  \/ \E p \in PartyIds, a \in Accounts : LeaveParty(p, a)
  \/ Restart

SpecRestart == Init /\ [][NextRestart]_vars

\* the party whose calls are interleaved
RacedParties == {1}
\* one call is suspended at a time
NoneSuspended == \A u \in Threads : in_flight[u] = Idle

\* a party whose members leave while another thread is suspended inside
\* join_party or update_member_ready_state
NextLeaveRace ==
  \/ \E a \in Requesters, n \in ConfigSizes : CreateParty(a, n)
  \/ \E p \in RacedParties : NoneSuspended /\ GetParty(p)
  \/ \E p \in RacedParties, a \in Accounts : LeavePartyBeside(p, a)
  \/ \E p \in RacedParties, a \in Accounts :
        NoneSuspended /\ JoinPartyBegin(1, p, a)
  \/ \E t \in Threads : JoinPartyResume(t)
  \/ \E p \in RacedParties, a \in Accounts :
        NoneSuspended /\ UpdateMemberReadyStateBegin(1, p, a, TRUE)
  \/ \E t \in Threads : UpdateMemberReadyStateFinish(t)

SpecLeaveRace == Init /\ [][NextLeaveRace]_vars

(* ======================= the claims ======================= *)
AllocatedParties == 1..(next_party_id - 1)
PartiesOf(account_id) ==
  {p \in DOMAIN active_parties : has_member(active_parties[p], account_id)}
Captains(party) ==
  {i \in 1..Len(party.members) : party.members[i].role = "CAPTAIN"}
MembersOf(ap) == [p \in DOMAIN ap |-> ap[p].members]

\* C1: after any sequence of create_party, join_party, leave_party and
\* respond_to_invitation calls no account is in the member lists of two
\* parties (nor twice in the member list of one).
C1_SingleParty ==
  \A a \in Accounts :
    /\ Cardinality(PartiesOf(a)) <= 1
    /\ \A p \in DOMAIN active_parties :
         Cardinality(MemberIndex(active_parties[p], a)) <= 1

\* two parties exist and a join was refused because the account is in the
\* other one
C1_Witness ==
  /\ Cardinality(DOMAIN active_parties) = 2
  /\ reply = [op |-> "join_party", result |-> AlreadyInAnotherParty]

\* C2: every party that has at least one member has exactly one member whose
\* role is CAPTAIN.
C2_OneCaptain ==
  \A p \in DOMAIN active_parties :
    Len(active_parties[p].members) >= 1 =>
      Cardinality(Captains(active_parties[p])) = 1

\* a member has left a party in which two members remain
C2_Witness ==
  /\ reply = [op |-> "leave_party", result |-> "LEFT"]
  /\ \E p \in DOMAIN active_parties : Len(active_parties[p].members) = 2

\* C3 as claimed: join_party on a party whose member count equals max_size
\* fails with PartyFull for every joining account and changes neither the
\* member lists nor the account-to-party map.
C3_Original ==
  \A p \in DOMAIN active_parties : \A a \in Accounts :
    Len(active_parties[p].members) = active_parties[p].config.max_size =>
      LET r == join_party(active_parties, user_parties, db_parties, p, a)
      IN /\ r.result = PartyFull
         /\ MembersOf(r.ap) = MembersOf(active_parties)
         /\ r.up = user_parties

\* C3 amended: join_party on a party whose member count equals max_size
\* fails, with AlreadyMember for an account that is a member of that party
\* and with PartyFull for every other account, and changes neither the
\* member lists nor the account-to-party map.
C3_FullPartyRefuses ==
  \A p \in DOMAIN active_parties : \A a \in Accounts :
    Len(active_parties[p].members) = active_parties[p].config.max_size =>
      LET r == join_party(active_parties, user_parties, db_parties, p, a)
      IN /\ r.result = IF has_member(active_parties[p], a)
                       THEN AlreadyMember ELSE PartyFull
         /\ MembersOf(r.ap) = MembersOf(active_parties)
         /\ r.up = user_parties

\* a join has just been refused by a party that holds max_size members
C3_Witness ==
  /\ reply = [op |-> "join_party", result |-> PartyFull]
  /\ \E p \in DOMAIN active_parties :
       Len(active_parties[p].members) = active_parties[p].config.max_size

ListElems(s) == {s[i] : i \in 1..Len(s)}

\* every record of the invitation that the service or the parties table
\* still holds
InvitationRecords(invitation_id) ==
  {inv \in UNION ({ListElems(active_parties[p].invitations) :
                     p \in DOMAIN active_parties}
                  \cup {ListElems(db_parties[p].invitations) :
                          p \in DOMAIN db_parties}
                  \cup {ListElems(party_invitations[a]) :
                          a \in DOMAIN party_invitations}) :
     inv.id = invitation_id}

PastExpiry(invitation_id) ==
  \E inv \in InvitationRecords(invitation_id) : inv.expires_at < now

\* C4 as claimed: respond_to_invitation(ACCEPT) by the recipient of an
\* invitation whose expires_at is earlier than the current time (and whose
\* party still exists) fails with Expired and leaves the member lists
\* unchanged, whether or not the sweep has run.
C4_Original ==
  \A i \in InvitationIds : \A inv \in InvitationRecords(i) :
    (inv.expires_at < now /\ inv.party_id \in DOMAIN active_parties) =>
      LET r == respond_to_invitation(i, inv.to_account_id, "ACCEPT")
      IN /\ r.result = InvitationExpired
         /\ MembersOf(r.ap) = MembersOf(active_parties)
         /\ r.up = user_parties

\* C4 amended: respond_to_invitation(ACCEPT) on an invitation whose
\* expires_at is earlier than the current time fails and leaves the member
\* lists and the account-to-party map unchanged; it fails with Expired when
\* the responder is the recipient and the invitation is still in the
\* invitation list of an existing party, and with NotFound otherwise (the
\* sweep has removed it, or its party is gone).
C4_ExpiredRefused ==
  \A i \in InvitationIds : \A a \in Accounts : \A response \in Responses :
    (PastExpiry(i) /\ Upper(response) = "ACCEPT") =>
      LET r == respond_to_invitation(i, a, response)
      IN /\ r.result = IF FindInvitation(i, a) # {}
                       THEN InvitationExpired ELSE InvitationNotFound
         /\ MembersOf(r.ap) = MembersOf(active_parties)
         /\ r.up = user_parties

\* a response to an invitation past its expires_at has just been refused as
\* expired, the sweep not having removed the invitation
C4_Witness ==
  /\ reply = [op |-> "respond_to_invitation", result |-> InvitationExpired]
  /\ \E i \in InvitationIds : PastExpiry(i)

\* C5: when leave_party removes the last member of a party the party is
\* deleted from active_parties and from the parties table, and get_party
\* returns NotFound for every party id that was given out and is no longer
\* in active_parties (in this specification: whose last member has left).
C5_EmptiedPartyGone ==
  /\ \A p \in DOMAIN active_parties : \A a \in Accounts :
       (has_member(active_parties[p], a)
          /\ Len(active_parties[p].members) = 1) =>
         LET r == leave_party(p, a)
         IN /\ r.result = "LEFT"
            /\ p \notin DOMAIN r.ap
            /\ p \notin DOMAIN r.db
  /\ \A p \in AllocatedParties :
       p \notin DOMAIN active_parties =>
         /\ get_party(p).result = PartyNotFound
         /\ join_party(active_parties, user_parties, db_parties, p,
                       1).result = PartyNotFound

\* every party id has been given out, every party has lost its last member
\* and get_party has just answered NotFound
C5_Witness ==
  /\ next_party_id = MaxParties + 1
  /\ active_parties = EmptyMap
  /\ reply = [op |-> "get_party", result |-> PartyNotFound]

\* C6: when the CAPTAIN leaves a party that still has members, the first
\* remaining member of the list, who joined no later than any other, becomes
\* CAPTAIN, every other remaining member keeps role MEMBER, and the
\* remaining members keep their order.
C6_FirstRemainingPromoted ==
  \A p \in DOMAIN active_parties : \A a \in Accounts :
    LET party == active_parties[p]
        idx == MemberIndex(party, a)
    IN (idx # {} /\ Len(party.members) >= 2
          /\ \A i \in idx : party.members[i].role = "CAPTAIN") =>
         LET r == leave_party(p, a)
             before == SelectSeq(party.members,
                                 LAMBDA m : m.account_id # a)
             after == r.ap[p].members
         IN /\ r.result = "LEFT"
            /\ Len(after) = Len(party.members) - 1
            /\ \A k \in 1..Len(after) :
                 /\ after[k].account_id = before[k].account_id
                 /\ after[k].role = IF k = 1 THEN "CAPTAIN" ELSE "MEMBER"
                 /\ after[1].joined_at <= after[k].joined_at

\* a captain has left: the party's captain joined after the party was
\* created, and a MEMBER who joined later still is behind them
C6_Witness ==
  /\ reply = [op |-> "leave_party", result |-> "LEFT"]
  /\ \E p \in DOMAIN active_parties :
       LET party == active_parties[p]
       IN /\ Len(party.members) = 2
          /\ party.members[1].role = "CAPTAIN"
          /\ party.members[1].joined_at > party.created_at
          /\ party.members[2].role = "MEMBER"
          /\ party.members[2].joined_at > party.members[1].joined_at
\* C7: are_friends(a, b) equals are_friends(b, a) for all accounts a and b.
C7_FriendsSymmetric ==
  \A a \in Accounts : \A b \in Accounts :
    are_friends(a, b) <=> are_friends(b, a)

\* a friendship has just been removed and another one is still there
C7_Witness ==
  /\ reply = [op |-> "remove_friend", result |-> "REMOVED"]
  /\ \E a \in Accounts : \E b \in Accounts \ {a} : are_friends(a, b)

\* C8 as claimed: while a has b blocked, send_friend_request(b, a) fails
\* with Blocked and creates no friend request.
C8_BlockedRefused ==
  \A a \in Accounts : \A b \in Accounts :
    is_blocked(a, b) =>
      LET r == send_friend_request(b, a)
      IN /\ r.result = Blocked
         /\ r.pr = pending_requests
         /\ r.fr = friend_requests

RequestsBetween(pr, a, b) ==
  {id \in DOMAIN pr :
     \/ pr[id].from_account_id = a /\ pr[id].to_account_id = b
     \/ pr[id].from_account_id = b /\ pr[id].to_account_id = a}

\* C9 as claimed: when a has a PENDING request to b, and b (not blocked by
\* a, not yet a friend) sends a request to a, the two become friends in that
\* step and no request between them remains.
C9_MutualRequestsAccepted ==
  \A a \in Accounts : \A b \in Accounts \ {a} :
    (/\ _find_existing_request(pending_requests, a, b) # {}
     /\ _find_existing_request(pending_requests, b, a) = {}
     /\ ~is_blocked(a, b)
     /\ ~are_friends(b, a)) =>
      LET r == send_friend_request(b, a)
      IN /\ friends_in(r.fl, a, b)
         /\ friends_in(r.fl, b, a)
         /\ RequestsBetween(r.pr, a, b) = {}

\* the presence_update events of a bag that go to a client of the account
EventsTo(em, account_id) ==
  Cardinality({i \in ClientsOf(account_id) :
                 BagIn(ClientEvent("presence_update",
                                   connected_clients[i].client_id), em)})
CopiesTo(em, account_id) ==
  LET e(i) == ClientEvent("presence_update", connected_clients[i].client_id)
  IN IF \E i \in ClientsOf(account_id) : CopiesIn(e(i), em) > 1 THEN 2
     ELSE EventsTo(em, account_id)
Subscribed(subscriber_id, target_id) ==
  target_id \in DOMAIN presence_subscriptions
    /\ subscriber_id \in presence_subscriptions[target_id]

\* C10 as claimed: each successful set_presence by t delivers exactly one
\* presence_update to every account subscribed to t and none to any other
\* account.
C10_Original ==
  \A t \in Accounts : \A st \in StatusInputs : \A act \in ActivityInputs :
    \A props \in PropertyInputs :
      LET r == set_presence(t, st, act, props)
      IN r.result = "UPDATED" =>
           \A s \in Accounts :
             CopiesTo(r.em, s) = IF Subscribed(s, t) THEN 1 ELSE 0

\* C10 amended: each successful set_presence by t delivers exactly one
\* presence_update to every account that is subscribed to t and has a
\* connected client (to the oldest of its clients), however many times it
\* subscribed, and none to any other account: a subscriber without a
\* connected client gets none.
C10_OnePerConnectedSubscriber ==
  \A t \in Accounts : \A st \in StatusInputs : \A act \in ActivityInputs :
    \A props \in PropertyInputs :
      LET r == set_presence(t, st, act, props)
      IN r.result = "UPDATED" =>
           /\ \A s \in Accounts :
                CopiesTo(r.em, s) =
                  IF Subscribed(s, t) /\ ClientsOf(s) # {} THEN 1 ELSE 0
           /\ BagCardinality(r.em) =
                Cardinality({s \in Accounts :
                               Subscribed(s, t) /\ ClientsOf(s) # {}})

\* set_presence has just sent one presence_update: the only account with
\* subscribers has two, one with two connected clients and one with none
C10_Witness ==
  /\ reply = [op |-> "set_presence", result |-> "UPDATED"]
  /\ BagCardinality(emitted) = 1
  /\ \E t \in Accounts :
       /\ DOMAIN presence_subscriptions = {t}
       /\ \E s1 \in presence_subscriptions[t] :
            \E s2 \in presence_subscriptions[t] :
              Cardinality(ClientsOf(s1)) = 2 /\ ClientsOf(s2) = {}
\* C11 as claimed: in every reachable state each party has at most
\* config.max_size members, whatever config create_party accepted.
C11_WithinMaxSize ==
  \A p \in DOMAIN active_parties :
    Len(active_parties[p].members) <= active_parties[p].config.max_size

HasInvitation(ap, pinv, invitation_id) ==
  \/ \E p \in DOMAIN ap :
        \E k \in 1..Len(ap[p].invitations) :
          ap[p].invitations[k].id = invitation_id
  \/ \E a \in DOMAIN pinv :
        \E k \in 1..Len(pinv[a]) : pinv[a][k].id = invitation_id

\* C12 as claimed: a respond_to_invitation call that succeeds, with ACCEPT or
\* with DECLINE, leaves the invitation neither in a party's invitation list
\* nor in the recipient's index.
C12_ResponseDeletesInvitation ==
  \A i \in InvitationIds : \A a \in Accounts :
    \A response \in {"ACCEPT", "DECLINE"} :
      LET r == respond_to_invitation(i, a, response)
      IN r.result = "OK" => ~HasInvitation(r.ap, r.pinv, i)

PendingFor(ap, party_id, to_account_id) ==
  {k \in 1..Len(ap[party_id].invitations) :
     /\ ap[party_id].invitations[k].to_account_id = to_account_id
     /\ ap[party_id].invitations[k].status = "PENDING"}

\* C13 as claimed: send_invitation by a member for a (party, recipient) pair
\* that already has a PENDING invitation creates no new invitation, so the
\* pair keeps exactly one PENDING invitation.
C13_DuplicateInvitationReturned ==
  \A p \in DOMAIN active_parties : \A a \in Accounts : \A b \in Accounts :
    (/\ PendingFor(active_parties, p, b) # {}
     /\ has_member(active_parties[p], a)
     /\ b \notin DOMAIN user_parties) =>
      LET r == send_invitation(p, a, b)
      IN /\ Cardinality(PendingFor(r.ap, p, b)) = 1
         /\ r.pinv = party_invitations

\* the accounts other than the recipient of an invitation that a party holds
NonRecipients(invitation_id) ==
  {a \in Accounts :
     \E p \in DOMAIN active_parties :
       \E k \in 1..Len(active_parties[p].invitations) :
         /\ active_parties[p].invitations[k].id = invitation_id
         /\ active_parties[p].invitations[k].to_account_id # a}

PartyStateKept(r) ==
  /\ r.ap = active_parties
  /\ r.pinv = party_invitations
  /\ r.up = user_parties
  /\ r.db = db_parties

C15_RacingJoinsKeepMaxSize ==
  /\ \A p \in DOMAIN active_parties :
       Len(active_parties[p].members) <= active_parties[p].config.max_size
  /\ \A p \in DOMAIN db_parties :
       Len(db_parties[p].members) <= db_parties[p].config.max_size

\* C16 as claimed: there is at most one PENDING request per ordered
\* (from, to) pair, and while one exists send_friend_request(from, to) fails
\* with DuplicateRequest and creates nothing.
C16_OnePendingPerPair ==
  \A a \in Accounts : \A b \in Accounts :
    LET existing == _find_existing_request(pending_requests, a, b)
    IN /\ Cardinality(existing) <= 1
       /\ existing # {} =>
            LET r == send_friend_request(a, b)
            IN /\ r.result = DuplicateRequest
               /\ r.pr = pending_requests
               /\ r.fr = friend_requests

\* the requests between two accounts that some recipient's list holds
ListedBetween(fr, a, b) ==
  {q \in UNION {ListElems(fr[x]) : x \in DOMAIN fr} :
     \/ q.from_account_id = a /\ q.to_account_id = b
     \/ q.from_account_id = b /\ q.to_account_id = a}

\* C17: after block_user(a, target) returns, a and target are not friends in
\* either direction, no friend request between them is left in either
\* direction (in pending_requests or in a recipient's list), and
\* is_blocked(a, target) holds.
C17_BlockClearsPair ==
  \A a \in Accounts : \A target \in Accounts :
    LET r == block_user(a, target)
    IN /\ r.result = "BLOCKED"
       /\ ~friends_in(r.fl, a, target)
       /\ ~friends_in(r.fl, target, a)
       /\ RequestsBetween(r.pr, a, target) = {}
       /\ ListedBetween(r.fr, a, target) = {}
       /\ a \in DOMAIN r.bu /\ target \in r.bu[a]

\* block_user has just returned for a pair that had been friends (both have
\* a friend set, now without the other) and no request is left
C17_Witness ==
  /\ reply = [op |-> "block_user", result |-> "BLOCKED"]
  /\ next_request_id > 1
  /\ \E a \in Accounts : \E target \in Accounts \ {a} :
       /\ is_blocked(a, target)
       /\ {a, target} \subseteq DOMAIN friend_lists
       /\ ~are_friends(a, target) /\ ~are_friends(target, a)
       /\ RequestsBetween(pending_requests, a, target) = {}

\* C18: respond_to_friend_request with ACCEPT by the recipient of an
\* unexpired request creates both friend edges in that call and removes the
\* request from pending_requests and from every recipient's list, so that a
\* second response to the same id fails with NotFound.
C18_AcceptMakesFriends ==
  \A id \in DOMAIN pending_requests : \A response \in {"ACCEPT", "accept"} :
    LET q == pending_requests[id]
        r == respond_to_friend_request(id, q.to_account_id, response)
    IN ~(q.expires_at < now) =>
         /\ r.result = "FRIENDS_ADDED"
         /\ friends_in(r.fl, q.from_account_id, q.to_account_id)
         /\ friends_in(r.fl, q.to_account_id, q.from_account_id)
         /\ id \notin DOMAIN r.pr
         /\ \A x \in DOMAIN r.fr : \A k \in 1..Len(r.fr[x]) :
              r.fr[x][k].id # id

\* a request has just been accepted after the clock moved, and is gone
C18_Witness ==
  /\ reply = [op |-> "respond_to_friend_request", result |-> "FRIENDS_ADDED"]
  /\ now > 0
  /\ \E a \in Accounts : \E b \in Accounts \ {a} :
       are_friends(a, b) /\ RequestsBetween(pending_requests, a, b) = {}

FriendsStateKept(r) ==
  /\ r.fl = friend_lists
  /\ r.fr = friend_requests
  /\ r.pr = pending_requests

\* C19: respond_to_friend_request fails with NotFound for an unknown request
\* id, with Unauthorized when the request is known and the responder is not
\* its recipient, and with Expired when the recipient responds after
\* expires_at; each time the friend edges and the requests are unchanged.
C19_RespondErrors ==
  \A id \in RequestIds : \A a \in Accounts : \A response \in Responses :
    LET r == respond_to_friend_request(id, a, response)
    IN /\ id \notin DOMAIN pending_requests =>
            r.result = RequestNotFound /\ FriendsStateKept(r)
       /\ (id \in DOMAIN pending_requests
             /\ pending_requests[id].to_account_id # a) =>
            r.result = Unauthorized /\ FriendsStateKept(r)
       /\ (id \in DOMAIN pending_requests
             /\ pending_requests[id].to_account_id = a
             /\ pending_requests[id].expires_at < now) =>
            r.result = RequestExpired /\ FriendsStateKept(r)

\* the recipient has just been refused because the request had expired, and
\* the request is still there
C19_Witness ==
  /\ reply = [op |-> "respond_to_friend_request", result |-> RequestExpired]
  /\ \E id \in DOMAIN pending_requests : pending_requests[id].expires_at < now

\* C20 as claimed: remove_friend(a, b) fails with NotFriends when a and b
\* are not friends, and otherwise removes both edges as one step: no state
\* that another thread can observe has a listing b without b listing a.
C20_RemoveIsAtomic ==
  /\ \A a \in Accounts : \A b \in Accounts :
       ~are_friends(a, b) =>
         remove_friend(friend_lists, presence_subscriptions,
                       user_subscriptions, a, b).result = NotFriends
  /\ \A a \in Accounts : \A b \in Accounts :
       are_friends(a, b) => are_friends(b, a)

\* the maps of FriendsService and PresenceService that a call left
StateOf(r) ==
  [fl |-> r.fl, bu |-> r.bu, fr |-> r.fr, pr |-> r.pr, psub |-> r.psub,
   usub |-> r.usub]

\* C21: a call of subscribe_to_presence, unsubscribe_from_presence (for some
\* targets or for all) or block_user that is made again on the state its
\* first call left succeeds and leaves that state as it is; unsubscribing
\* from targets one is not subscribed to succeeds and changes nothing.
C21_RetryChangesNothing ==
  /\ \A a \in Accounts : \A target \in Accounts :
       LET r1 == block_user(a, target)
           r2 == block_user_on(r1.fl, r1.bu, r1.fr, r1.pr, r1.psub, r1.usub,
                               a, target)
       IN r2.result = "BLOCKED" /\ StateOf(r2) = StateOf(r1)
  /\ \A a \in Accounts : \A ts \in TargetLists :
       LET r1 == subscribe_to_presence(presence_subscriptions,
                                       user_subscriptions, a, ts)
           u1 == unsubscribe_from_presence(presence_subscriptions,
                                           user_subscriptions, a, ts)
       IN /\ subscribe_to_presence(r1.psub, r1.usub, a, ts) = r1
          /\ unsubscribe_from_presence(u1.psub, u1.usub, a, ts) = u1
          /\ (\A t \in ts : ~Subscribed(a, t)) =>
               u1 = [psub |-> presence_subscriptions,
                     usub |-> user_subscriptions]
  /\ \A a \in Accounts :
       LET u1 == unsubscribe_from_all(presence_subscriptions,
                                      user_subscriptions, a)
       IN unsubscribe_from_all(u1.psub, u1.usub, a) = u1

\* a block has just been repeated on a pair that had been friends with
\* presence subscriptions, of which some other subscription is left
C21_Witness ==
  /\ reply = [op |-> "block_user", result |-> "BLOCKED"]
  /\ presence_subscriptions # EmptyMap
  /\ \E a \in Accounts : \E target \in Accounts \ {a} :
       /\ is_blocked(a, target)
       /\ {a, target} \subseteq DOMAIN friend_lists
       /\ ~Subscribed(a, target) /\ ~Subscribed(target, a)

\* C22: set_presence with a status that is not one of valid_states returns
\* the invalid-status error, stores nothing and emits no presence_update.
C22_InvalidStatusRefused ==
  /\ \A a \in Accounts : \A st \in StatusInputs \ valid_states :
     \A act \in ActivityInputs : \A props \in PropertyInputs :
       LET r == set_presence(a, st, act, props)
       IN /\ r.result = InvalidStatus
          /\ r.up = user_presence
          /\ r.em = EmptyBag
  /\ reply = [op |-> "set_presence", result |-> InvalidStatus] =>
       emitted = EmptyBag

\* an invalid status has just been refused for an account that has a stored
\* presence and a connected subscriber
C22_Witness ==
  /\ reply = [op |-> "set_presence", result |-> InvalidStatus]
  /\ \E a \in DOMAIN user_presence : \E s \in Accounts \ {a} :
       /\ Subscribed(s, a)
       /\ ClientsOf(s) # {}
       /\ \A st \in StatusInputs \ valid_states :
            set_presence(a, st, "match", [custom |-> "x"]).up = user_presence

\* C23: get_presence answers with a presence for every account, for one
\* without a stored presence with an offline presence that it does not
\* store, and leaves the stored presences and both subscription maps as
\* they are.
C23_GetPresenceReadsOnly ==
  \A a \in Accounts :
    LET r == get_presence(a)
    IN /\ r.result.account_id = a
       /\ r.result.status \in valid_states
       /\ a \notin DOMAIN user_presence => r.result.status = "offline"
       /\ r.up = user_presence
       /\ r.psub = presence_subscriptions
       /\ r.usub = user_subscriptions

\* an offline presence has just been returned for an account that has
\* subscriptions and no stored presence, while another account has one
C23_Witness ==
  /\ reply = [op |-> "get_presence", result |-> "offline"]
  /\ user_presence # EmptyMap
  /\ \E a \in Accounts \ DOMAIN user_presence :
       /\ a \in DOMAIN presence_subscriptions
       /\ a \in DOMAIN user_subscriptions

\* the status and properties that get_presence reports from the presences up
StatusIn(up, a) == IF a \in DOMAIN up THEN up[a].status ELSE "offline"
PropertiesIn(up, a) == IF a \in DOMAIN up THEN up[a].properties ELSE EmptyMap

\* what handle_user_disconnect(a) leaves of the presence and of the
\* subscriptions of a
DisconnectLeaves(a, r) ==
  /\ StatusIn(r.up, a) = "offline"
  /\ PropertiesIn(r.up, a) = EmptyMap
  /\ a \notin DOMAIN r.usub
  /\ \A t \in DOMAIN r.psub : a \notin r.psub[t]
  /\ \A s \in Accounts \ {a} :
       (a \in DOMAIN r.psub /\ s \in r.psub[a]) <=> Subscribed(s, a)

\* C24 as claimed: after handle_user_disconnect(a) the status of a is
\* offline with empty properties, every subscriber of a has been sent a
\* presence_update, a is subscribed to nobody, and the subscriptions of
\* others to a are as before.
C24_Original ==
  \A a \in Accounts :
    LET r == handle_user_disconnect(a)
    IN /\ DisconnectLeaves(a, r)
       /\ \A s \in Accounts : Subscribed(s, a) => EventsTo(r.em, s) >= 1

\* C24 amended: after handle_user_disconnect(a) the status of a is offline
\* with empty properties, a is subscribed to nobody and the subscriptions of
\* others to a are as before; a presence_update has been sent to exactly
\* the subscribers of a that have a connected client when a had a stored
\* presence, and to nobody when it had none.
C24_DisconnectGoesOffline ==
  \A a \in Accounts :
    LET r == handle_user_disconnect(a)
    IN /\ DisconnectLeaves(a, r)
       /\ a \in DOMAIN user_presence =>
            /\ r.up[a].status = "offline"
            /\ r.up[a].last_online = now
       /\ \A s \in Accounts :
            CopiesTo(r.em, s) =
              IF a \in DOMAIN user_presence /\ Subscribed(s, a)
                   /\ ClientsOf(s) # {}
              THEN 1 ELSE 0

\* handle_user_disconnect has just put an account offline and told its
\* connected subscriber, while a second subscriber has no client
C24_Witness ==
  /\ reply = [op |-> "handle_user_disconnect", result |-> "OK"]
  /\ \E a \in DOMAIN user_presence :
     \E s \in Accounts \ {a} : \E u \in Accounts \ {a, s} :
       /\ user_presence[a].status = "offline"
       /\ user_presence[a].last_online = now
       /\ user_presence[a].properties = EmptyMap
       /\ Subscribed(s, a) /\ ClientsOf(s) # {}
       /\ EventsTo(emitted, s) = 1
       /\ Subscribed(u, a) /\ ClientsOf(u) = {}
       /\ a \notin DOMAIN user_subscriptions

\* C25: when cleanup_offline_users removes an account, no subscription of
\* that account and no subscription to it is left in presence_subscriptions
\* or in user_subscriptions.
C25_RemovedAccountHasNoEdges ==
  LET r == cleanup_offline_users
  IN \A x \in users_to_remove :
       /\ x \notin DOMAIN r.up
       /\ x \notin DOMAIN r.psub
       /\ x \notin DOMAIN r.usub
       /\ \A t \in DOMAIN r.psub : x \notin r.psub[t]
       /\ \A s \in DOMAIN r.usub : x \notin r.usub[s]

\* a subscription of subscriber_id to target_id in both maps
SubscribedIn(psub, usub, subscriber_id, target_id) ==
  /\ target_id \in DOMAIN psub /\ subscriber_id \in psub[target_id]
  /\ subscriber_id \in DOMAIN usub /\ target_id \in usub[subscriber_id]

\* C26: when respond_to_friend_request with ACCEPT succeeds for a request
\* from a to b, a is subscribed to the presence of b and b to the presence
\* of a.
C26_AcceptSubscribesBothWays ==
  \A id \in DOMAIN pending_requests : \A account_id \in Accounts :
    \A response \in {"ACCEPT", "accept"} :
      LET q == pending_requests[id]
          r == respond_to_friend_request(id, account_id, response)
      IN r.result = "FRIENDS_ADDED" =>
           /\ SubscribedIn(r.psub, r.usub, q.from_account_id,
                           q.to_account_id)
           /\ SubscribedIn(r.psub, r.usub, q.to_account_id,
                           q.from_account_id)

\* an accept has just made two accounts subscribers of each other
C26_Witness ==
  /\ reply = [op |-> "respond_to_friend_request",
              result |-> "FRIENDS_ADDED"]
  /\ \E a \in Accounts : \E b \in Accounts \ {a} :
       /\ SubscribedIn(presence_subscriptions, user_subscriptions, a, b)
       /\ SubscribedIn(presence_subscriptions, user_subscriptions, b, a)
       /\ are_friends(a, b) /\ are_friends(b, a)
       /\ RequestsBetween(pending_requests, a, b) = {}

\* C27: a successful leave_party emits party_member_left to the party, and
\* emits one more event, for the change of captain, exactly when the member
\* that left was the CAPTAIN and another member was promoted.
C27_CaptainChangeEmitted ==
  \A p \in DOMAIN active_parties : \A a \in Accounts :
    LET r == leave_party(p, a)
        left == active_parties[p].members[
                  CHOOSE k \in MemberIndex(active_parties[p], a) :
                    \A m \in MemberIndex(active_parties[p], a) : k <= m]
        promoted == /\ left.role = "CAPTAIN"
                    /\ p \in DOMAIN r.ap
                    /\ Captains(r.ap[p]) # {}
    IN r.result = "LEFT" =>
         /\ BagIn(PartyRoomEvent("party_member_left", p), r.em)
         /\ promoted <=>
              \E e \in BagToSet(r.em) : e.event # "party_member_left"

\* what a refused or successful update_member_ready_state(p, a, ready)
\* leaves: nothing changed when it is refused, and on success the ready
\* flag of a and updated_at of party p changed, in the service and in the
\* table, and nothing else
ReadyFrame(p, a, ready, r) ==
  IF p \notin DOMAIN active_parties
  THEN r.result = PartyNotFound /\ PartyStateKept(r) /\ r.em = EmptyBag
  ELSE IF ~has_member(active_parties[p], a)
  THEN r.result = MemberNotFound /\ PartyStateKept(r) /\ r.em = EmptyBag
  ELSE
    LET old == active_parties[p].members
        new == r.ap[p].members
    IN /\ r.result = "UPDATED"
       /\ r.pinv = party_invitations /\ r.up = user_parties
       /\ DOMAIN r.ap = DOMAIN active_parties
       /\ \A q \in DOMAIN active_parties \ {p} : r.ap[q] = active_parties[q]
       /\ r.ap[p] = [active_parties[p] EXCEPT !.members = new,
                                              !.updated_at = now]
       /\ Len(new) = Len(old)
       /\ \A k \in 1..Len(old) :
            /\ new[k] = [old[k] EXCEPT !.ready = new[k].ready]
            /\ new[k].ready = IF old[k].account_id = a THEN ready
                              ELSE old[k].ready
       /\ r.db = Put(db_parties, p, r.ap[p])

\* C28 as claimed: update_member_ready_state fails for an unknown party and
\* for a non-member without changing anything; on success it changes the
\* ready flag of that member and updated_at of the party and nothing else;
\* the same call made again, then or later, leaves the state the first call
\* left.
C28_Original ==
  \A p \in PartyIds : \A a \in Accounts : \A ready \in BOOLEAN :
    LET r1 == update_member_ready_state(active_parties, db_parties, now,
                                        p, a, ready)
    IN /\ ReadyFrame(p, a, ready, r1)
       /\ \A later \in now..MaxMemberTime :
            LET r2 == update_member_ready_state(r1.ap, r1.db, later,
                                                p, a, ready)
            IN r2.result = r1.result /\ r2.ap = r1.ap /\ r2.db = r1.db

\* C28 amended: as claimed, except that the same call made again leaves the
\* state the first call left apart from updated_at of the party, which is
\* the time of the later call.
C28_ReadyStateFrame ==
  \A p \in PartyIds : \A a \in Accounts : \A ready \in BOOLEAN :
    LET r1 == update_member_ready_state(active_parties, db_parties, now,
                                        p, a, ready)
    IN /\ ReadyFrame(p, a, ready, r1)
       /\ \A later \in now..MaxMemberTime :
            LET r2 == update_member_ready_state(r1.ap, r1.db, later,
                                                p, a, ready)
            IN /\ r2.result = r1.result
               /\ r2.pinv = r1.pinv /\ r2.up = r1.up
               /\ r1.result # "UPDATED" => r2.ap = r1.ap /\ r2.db = r1.db
               /\ r1.result = "UPDATED" =>
                    /\ r2.ap = Put(r1.ap, p,
                                   [r1.ap[p] EXCEPT !.updated_at = later])
                    /\ r2.db = Put(r1.db, p, r2.ap[p])

\* a member that is not the CAPTAIN has just been marked ready in a party of
\* two, later than the party was made, and the other member is not ready
C28_Witness ==
  /\ reply = [op |-> "update_member_ready_state", result |-> "UPDATED"]
  /\ \E p \in DOMAIN active_parties :
       LET party == active_parties[p]
       IN /\ Len(party.members) = 2
          /\ party.members[1].role = "CAPTAIN"
          /\ ~party.members[1].ready
          /\ party.members[2].ready
          /\ party.updated_at = now /\ party.created_at < now
          /\ db_parties[p] = party

\* C29: respond_to_invitation and respond_to_friend_request by the
\* recipient of an unexpired invitation or request with a response that is
\* neither ACCEPT nor DECLINE fail, and leave the invitation or the request
\* where it was and as it was, with the members of every party and the
\* friends of every account.
C29_OtherResponseRefused ==
  \A response \in OtherResponses :
    /\ \A p \in DOMAIN active_parties :
       \A k \in 1..Len(active_parties[p].invitations) :
         LET inv == active_parties[p].invitations[k]
             r == respond_to_invitation(inv.id, inv.to_account_id, response)
         IN ~(inv.expires_at < now) =>
              r.result # "OK" /\ PartyStateKept(r)
    /\ \A id \in DOMAIN pending_requests :
         LET q == pending_requests[id]
             r == respond_to_friend_request(id, q.to_account_id, response)
         IN ~(q.expires_at < now) =>
              /\ r.result \notin {"OK", "FRIENDS_ADDED"}
              /\ FriendsStateKept(r)

\* the entries of a list that are past their expiry, and those that are not
PastIn(list) == {e \in ListElems(list) : e.expires_at < now}
LiveIn(list) == {e \in ListElems(list) : ~(e.expires_at < now)}

\* no entry past its expiry is in the indices of PartyService ap and pinv
NoPastInvitation(ap, pinv) ==
  /\ \A p \in DOMAIN ap : PastIn(ap[p].invitations) = {}
  /\ \A a \in DOMAIN pinv : PastIn(pinv[a]) = {}

\* no entry past its expiry is in the indices of FriendsService pr and fr
NoPastRequest(pr, fr) ==
  /\ \A id \in DOMAIN pr : ~(pr[id].expires_at < now)
  /\ \A a \in DOMAIN fr : PastIn(fr[a]) = {}

\* C30: after cleanup_expired_invitations and after cleanup_expired_requests
\* no invitation and no friend request with expires_at earlier than the
\* time of the call is in the invitation list of a party, in the
\* invitation list of a recipient, in pending_requests or in the request
\* list of a recipient, and every entry that is not past its expiry is
\* where it was.
C30_SweepRemovesExpiredOnly ==
  LET r == cleanup_expired_invitations
      f == cleanup_expired_requests
  IN /\ NoPastInvitation(r.ap, r.pinv)
     /\ NoPastRequest(f.pr, f.fr)
     /\ DOMAIN r.ap = DOMAIN active_parties
     /\ \A p \in DOMAIN active_parties :
          LiveIn(active_parties[p].invitations)
            = ListElems(r.ap[p].invitations)
     /\ \A a \in DOMAIN party_invitations :
          LiveIn(party_invitations[a]) # {} =>
            /\ a \in DOMAIN r.pinv
            /\ LiveIn(party_invitations[a]) = ListElems(r.pinv[a])
     /\ \A id \in DOMAIN pending_requests :
          ~(pending_requests[id].expires_at < now) =>
            id \in DOMAIN f.pr /\ f.pr[id] = pending_requests[id]
     /\ \A a \in DOMAIN friend_requests :
          LiveIn(friend_requests[a]) # {} =>
            /\ a \in DOMAIN f.fr
            /\ LiveIn(friend_requests[a]) = ListElems(f.fr[a])

\* cleanup_expired_requests has just run after a request lifetime and a
\* second: of two requests that were sent the later one is left, in
\* pending_requests and in the list of its recipient, and the invitation
\* that was sent is in no list
C30_Witness ==
  /\ reply.op = "cleanup_expired_requests"
  /\ now = friend_request_timeout + 1
  /\ next_request_id = 3
  /\ \E id \in DOMAIN pending_requests :
       /\ DOMAIN pending_requests = {id}
       /\ \E a \in DOMAIN friend_requests :
            ListElems(friend_requests[a]) = {pending_requests[id]}
  /\ next_invitation_id = 2
  /\ party_invitations = EmptyMap
  /\ \A p \in DOMAIN active_parties : active_parties[p].invitations = <<>>

C32_ListingsOmitExpired ==
  \A a \in Accounts :
    /\ PastIn(get_user_invitations(a).result) = {}
    /\ PastIn(get_friend_requests(a).result) = {}

\* C33: send_friend_request(a, b) answers that the request was already sent
\* only when pending_requests holds a PENDING request from a to b whose
\* expires_at is not earlier than now.
C33_ExpiredRequestDoesNotBlock ==
  \A a \in Accounts : \A b \in Accounts :
    send_friend_request(a, b).result = DuplicateRequest =>
      \E id \in DOMAIN pending_requests :
        /\ pending_requests[id].from_account_id = a
        /\ pending_requests[id].to_account_id = b
        /\ pending_requests[id].status = "PENDING"
        /\ ~(pending_requests[id].expires_at < now)

C35_InvitationIndicesAgree ==
  \A i \in InvitationIds :
    (\E a \in DOMAIN party_invitations :
       \E k \in 1..Len(party_invitations[a]) : party_invitations[a][k].id = i)
    <=> (\E p \in DOMAIN active_parties :
           \E k \in 1..Len(active_parties[p].invitations) :
             active_parties[p].invitations[k].id = i)

\* C36: presence_subscriptions and user_subscriptions are inverse
\* relations: s is a subscriber of t in presence_subscriptions exactly when
\* t is a target of s in user_subscriptions.
C36_SubscriptionsAreInverse ==
  \A s \in Accounts : \A t \in Accounts :
    (t \in DOMAIN presence_subscriptions /\ s \in presence_subscriptions[t])
      <=> (s \in DOMAIN user_subscriptions /\ t \in user_subscriptions[s])

\* C37: no pair of accounts is both friends and blocked: when is_blocked(a, b)
\* holds, are_friends(a, b) and are_friends(b, a) are both false.
C37_BlockedAreNotFriends ==
  \A a \in Accounts : \A b \in Accounts :
    is_blocked(a, b) => ~are_friends(a, b) /\ ~are_friends(b, a)

\* the chained join_party of an ACCEPT by account_id of the PENDING,
\* unexpired invitation invitation_id would be refused for the party's size
\* or for the other party of the account
ChainedJoinFails(invitation_id, account_id) ==
  \E pi \in FindInvitation(invitation_id, account_id) :
    LET invitation == active_parties[pi[1]].invitations[pi[2]]
    IN /\ invitation.status = "PENDING"
       /\ ~(invitation.expires_at < now)
       /\ join_party(active_parties, user_parties, db_parties, pi[1],
                     account_id).result \in {PartyFull, AlreadyInAnotherParty}

\* C38: when the join_party called by respond_to_invitation with ACCEPT is
\* refused because the party is full or the account is in another party, the
\* response fails, the invitation stays PENDING in both lists and the
\* members of every party are unchanged.
C38_FailedAcceptChangesNothing ==
  \A i \in InvitationIds : \A a \in Accounts :
    ChainedJoinFails(i, a) =>
      LET r == respond_to_invitation(i, a, "ACCEPT")
      IN /\ r.result # "OK"
         /\ r.pinv = party_invitations
         /\ r.ap = active_parties
         /\ r.up = user_parties

\* a party with at least one member, one of them the CAPTAIN
WellFormedParty(party) ==
  /\ Len(party.members) > 0
  /\ \E k \in 1..Len(party.members) : party.members[k].role = "CAPTAIN"

\* C39: every party that get_party can return, from active_parties or loaded
\* from the parties table, has at least one member and a CAPTAIN, also when
\* the last member's leave_party runs while a join_party or an
\* update_member_ready_state on the party is suspended.
C39_NoPartyWithoutCaptain ==
  /\ \A p \in DOMAIN active_parties : WellFormedParty(active_parties[p])
  /\ \A p \in DOMAIN db_parties : WellFormedParty(db_parties[p])

\* C40: every member of a party of active_parties, also of one that get_party
\* or join_party loaded from the parties table after the maps were emptied,
\* is refused by create_party and by join_party on any other party.
C40_LoadedMembersRefused ==
  \A p \in DOMAIN active_parties : \A a \in Accounts :
    has_member(active_parties[p], a) =>
      /\ \A n \in ConfigSizes : create_party(a, n).result = AlreadyMember
      /\ \A q \in PartyIds \ {p} :
           join_party(active_parties, user_parties, db_parties, q,
                      a).result # "JOINED"
====
